---------------------------- MODULE Spec2Model ----------------------------
(***************************************************************************)
(* The BFSI compliance scripts under .github/scripts:                      *)
(*   generate-compliance-report.py  (ComplianceReportGenerator)            *)
(*   security-quality-gates.py      (SecurityQualityGates and its main)    *)
(* Both read the same directory of SARIF result files.  A file is either   *)
(* unreadable (open or json.load raises) or a sequence of runs, a run is a *)
(* sequence of results, and a result is a JSON value that may lack keys or *)
(* hold values of the wrong type.                                          *)
(***************************************************************************)
EXTENDS Integers, Sequences, FiniteSets, TLC

(***************************************************************************)
(* Strings.  Python's str.lower() and the substring test `a in b` work on  *)
(* characters, so every string the model uses is spelled out here.         *)
(***************************************************************************)
Spell ==
     "" :> <<>>
  @@ "ERROR" :> <<"E", "R", "R", "O", "R">>
  @@ "Error" :> <<"E", "r", "r", "o", "r">>
  @@ "SQL-Injection-Detected" :> <<"S", "Q", "L", "-", "I", "n", "j", "e", "c", "t", "i", "o", "n", "-", "D", "e", "t", "e", "c", "t", "e", "d">>
  @@ "Warning" :> <<"W", "a", "r", "n", "i", "n", "g">>
  @@ "access" :> <<"a", "c", "c", "e", "s", "s">>
  @@ "access-control" :> <<"a", "c", "c", "e", "s", "s", "-", "c", "o", "n", "t", "r", "o", "l">>
  @@ "access-control-authentication" :> <<"a", "c", "c", "e", "s", "s", "-", "c", "o", "n", "t", "r", "o", "l", "-", "a", "u", "t", "h", "e", "n", "t", "i", "c", "a", "t", "i", "o", "n">>
  @@ "audit-trail" :> <<"a", "u", "d", "i", "t", "-", "t", "r", "a", "i", "l">>
  @@ "auth" :> <<"a", "u", "t", "h">>
  @@ "authentication" :> <<"a", "u", "t", "h", "e", "n", "t", "i", "c", "a", "t", "i", "o", "n">>
  @@ "authorization" :> <<"a", "u", "t", "h", "o", "r", "i", "z", "a", "t", "i", "o", "n">>
  @@ "cipher" :> <<"c", "i", "p", "h", "e", "r">>
  @@ "consistency" :> <<"c", "o", "n", "s", "i", "s", "t", "e", "n", "c", "y">>
  @@ "critical" :> <<"c", "r", "i", "t", "i", "c", "a", "l">>
  @@ "crypto" :> <<"c", "r", "y", "p", "t", "o">>
  @@ "data-integrity" :> <<"d", "a", "t", "a", "-", "i", "n", "t", "e", "g", "r", "i", "t", "y">>
  @@ "data-integrity-policy" :> <<"d", "a", "t", "a", "-", "i", "n", "t", "e", "g", "r", "i", "t", "y", "-", "p", "o", "l", "i", "c", "y">>
  @@ "data-localization" :> <<"d", "a", "t", "a", "-", "l", "o", "c", "a", "l", "i", "z", "a", "t", "i", "o", "n">>
  @@ "data-protection" :> <<"d", "a", "t", "a", "-", "p", "r", "o", "t", "e", "c", "t", "i", "o", "n">>
  @@ "encryption" :> <<"e", "n", "c", "r", "y", "p", "t", "i", "o", "n">>
  @@ "error" :> <<"e", "r", "r", "o", "r">>
  @@ "governance" :> <<"g", "o", "v", "e", "r", "n", "a", "n", "c", "e">>
  @@ "hardcoded-credentials" :> <<"h", "a", "r", "d", "c", "o", "d", "e", "d", "-", "c", "r", "e", "d", "e", "n", "t", "i", "a", "l", "s">>
  @@ "hash" :> <<"h", "a", "s", "h">>
  @@ "injection" :> <<"i", "n", "j", "e", "c", "t", "i", "o", "n">>
  @@ "java/Payment-Data-Exposure" :> <<"j", "a", "v", "a", "/", "P", "a", "y", "m", "e", "n", "t", "-", "D", "a", "t", "a", "-", "E", "x", "p", "o", "s", "u", "r", "e">>
  @@ "java/payment-data-exposure" :> <<"j", "a", "v", "a", "/", "p", "a", "y", "m", "e", "n", "t", "-", "d", "a", "t", "a", "-", "e", "x", "p", "o", "s", "u", "r", "e">>
  @@ "none" :> <<"n", "o", "n", "e">>
  @@ "note" :> <<"n", "o", "t", "e">>
  @@ "payment-data-exposure" :> <<"p", "a", "y", "m", "e", "n", "t", "-", "d", "a", "t", "a", "-", "e", "x", "p", "o", "s", "u", "r", "e">>
  @@ "personal" :> <<"p", "e", "r", "s", "o", "n", "a", "l">>
  @@ "pii" :> <<"p", "i", "i">>
  @@ "pii-exposure" :> <<"p", "i", "i", "-", "e", "x", "p", "o", "s", "u", "r", "e">>
  @@ "policy" :> <<"p", "o", "l", "i", "c", "y">>
  @@ "procedure" :> <<"p", "r", "o", "c", "e", "d", "u", "r", "e">>
  @@ "rbi-data-localization" :> <<"r", "b", "i", "-", "d", "a", "t", "a", "-", "l", "o", "c", "a", "l", "i", "z", "a", "t", "i", "o", "n">>
  @@ "risk-management" :> <<"r", "i", "s", "k", "-", "m", "a", "n", "a", "g", "e", "m", "e", "n", "t">>
  @@ "sensitive-data-exposure" :> <<"s", "e", "n", "s", "i", "t", "i", "v", "e", "-", "d", "a", "t", "a", "-", "e", "x", "p", "o", "s", "u", "r", "e">>
  @@ "session" :> <<"s", "e", "s", "s", "i", "o", "n">>
  @@ "sql-injection" :> <<"s", "q", "l", "-", "i", "n", "j", "e", "c", "t", "i", "o", "n">>
  @@ "sql-injection-auth-bypass" :> <<"s", "q", "l", "-", "i", "n", "j", "e", "c", "t", "i", "o", "n", "-", "a", "u", "t", "h", "-", "b", "y", "p", "a", "s", "s">>
  @@ "sql-injection-detected" :> <<"s", "q", "l", "-", "i", "n", "j", "e", "c", "t", "i", "o", "n", "-", "d", "e", "t", "e", "c", "t", "e", "d">>
  @@ "system-governance" :> <<"s", "y", "s", "t", "e", "m", "-", "g", "o", "v", "e", "r", "n", "a", "n", "c", "e">>
  @@ "unknown" :> <<"u", "n", "k", "n", "o", "w", "n">>
  @@ "unused-variable" :> <<"u", "n", "u", "s", "e", "d", "-", "v", "a", "r", "i", "a", "b", "l", "e">>
  @@ "validation" :> <<"v", "a", "l", "i", "d", "a", "t", "i", "o", "n">>
  @@ "vulnerability" :> <<"v", "u", "l", "n", "e", "r", "a", "b", "i", "l", "i", "t", "y">>
  @@ "warning" :> <<"w", "a", "r", "n", "i", "n", "g">>
  @@ "weak-cryptographic-algorithm" :> <<"w", "e", "a", "k", "-", "c", "r", "y", "p", "t", "o", "g", "r", "a", "p", "h", "i", "c", "-", "a", "l", "g", "o", "r", "i", "t", "h", "m">>
  @@ "weak-transaction-encryption" :> <<"w", "e", "a", "k", "-", "t", "r", "a", "n", "s", "a", "c", "t", "i", "o", "n", "-", "e", "n", "c", "r", "y", "p", "t", "i", "o", "n">>
  @@ "xss" :> <<"x", "s", "s">>
  @@ "xss-vulnerability" :> <<"x", "s", "s", "-", "v", "u", "l", "n", "e", "r", "a", "b", "i", "l", "i", "t", "y">>
UpperToLower ==
     "A" :> "a"
  @@ "B" :> "b"
  @@ "C" :> "c"
  @@ "D" :> "d"
  @@ "E" :> "e"
  @@ "F" :> "f"
  @@ "G" :> "g"
  @@ "H" :> "h"
  @@ "I" :> "i"
  @@ "J" :> "j"
  @@ "K" :> "k"
  @@ "L" :> "l"
  @@ "M" :> "m"
  @@ "N" :> "n"
  @@ "O" :> "o"
  @@ "P" :> "p"
  @@ "Q" :> "q"
  @@ "R" :> "r"
  @@ "S" :> "s"
  @@ "T" :> "t"
  @@ "U" :> "u"
  @@ "V" :> "v"
  @@ "W" :> "w"
  @@ "X" :> "x"
  @@ "Y" :> "y"
  @@ "Z" :> "z"

Strings == DOMAIN Spell

LowerChar(c) == IF c \in DOMAIN UpperToLower THEN UpperToLower[c] ELSE c

\* str.lower() over the spelled strings sp: the string whose characters are
\* those of s, lowercased
LowerTableOf(sp) ==
  [s \in DOMAIN sp |->
     CHOOSE t \in DOMAIN sp : sp[t] = [i \in DOMAIN sp[s] |-> LowerChar(sp[s][i])]]

\* Python's `term in text` on two character sequences
Contains(term, text) ==
  \E i \in 0..(Len(text) - Len(term)) :
     \A j \in 1..Len(term) : text[i + j] = term[j]

InTableOf(sp) ==
  [term \in DOMAIN sp |-> [text \in DOMAIN sp |-> Contains(sp[term], sp[text])]]

lower_table == LowerTableOf(Spell)

in_table == InTableOf(Spell)

\* The string as it is, where s.lower() is meant
lower_keeping_case(s) == s

\* s.lower()
lower(s) == lower_table[s]

\* `term in text`
StrIn(term, text) == in_table[term][text]

\* any(term in rule_lower for term in terms)
any_term_in(terms, rule_lower) ==
  \E k \in DOMAIN terms : StrIn(terms[k], rule_lower)

(***************************************************************************)
(* JSON values.  dict.get(key, default) returns the default only when the  *)
(* key is absent; a key that is present with a value of the wrong type     *)
(* (null, a number, a list) is returned as it is and raises AttributeError *)
(* at the first string or dict method called on it.                        *)
(***************************************************************************)
Absent  == "<absent>"    \* the key is not in the dict
NonStr  == "<null>"      \* the key holds a value that is not a string
NonDict == "<nondict>"   \* 'message' holds a value that is not a dict
NoText  == "<notext>"    \* 'message' is a dict without 'text'

\* dict.get(key, default), applied to the value stored under the key
get(value, default) == IF value = Absent THEN default ELSE value

\* result.get('message', {}).get('text', '') once 'message' is known to be a dict
message_text(result) ==
  IF result.message \in {Absent, NoText} THEN "" ELSE result.message

\* `x in list`
InList(x, list) == \E i \in DOMAIN list : list[i] = x

Range(list) == {list[i] : i \in DOMAIN list}

(***************************************************************************)
(* Rationals, for the float arithmetic of _finalize_report: a percentage   *)
(* is the pair <<numerator, denominator>> in lowest terms.                 *)
(***************************************************************************)
RECURSIVE GCD(_, _)
GCD(a, b) == IF b = 0 THEN a ELSE GCD(b, a % b)

Rat(n, d) == LET g == GCD(IF n < 0 THEN -n ELSE n, d) IN <<n \div g, d \div g>>

RatAdd(x, y) == Rat(x[1] * y[2] + y[1] * x[2], x[2] * y[2])
RatLeq(x, y) == x[1] * y[2] <= y[1] * x[2]
RatMax(x, y) == IF RatLeq(x, y) THEN y ELSE x

(***************************************************************************)
(* generate-compliance-report.py: ComplianceReportGenerator                *)
(***************************************************************************)
Mapping(framework, control, description, level) ==
  [framework |-> framework, control |-> control,
   description |-> description, severity_impact |-> level]

\* The `if any(term in rule_lower for term in [...])` blocks of a mapper, in
\* the order of the source: the terms, and the control the block appends
iso27001_patterns ==
  <<[terms |-> <<"sql-injection", "xss", "vulnerability">>,
     control |-> "A.12.6.1",
     description |-> "Management of technical vulnerabilities"],
    [terms |-> <<"crypto", "encryption", "cipher", "hash">>,
     control |-> "A.10.1.1",
     description |-> "Policy on the use of cryptographic controls"],
    [terms |-> <<"auth", "access", "authorization">>,
     control |-> "A.9.1.1",
     description |-> "Access control policy"]>>

rbi_patterns ==
  <<[terms |-> <<"sql-injection", "xss", "injection">>,
     control |-> "RBI-IT-4.2.1",
     description |-> "Application Security - Secure coding practices"],
    [terms |-> <<"auth", "session", "access">>,
     control |-> "RBI-IT-4.1.3",
     description |-> "Access Control and Authentication"],
    [terms |-> <<"pii", "personal", "data-protection">>,
     control |-> "RBI-IT-4.3.3",
     description |-> "Customer Data Protection"]>>

sebi_patterns ==
  <<[terms |-> <<"governance", "policy", "procedure">>,
     control |-> "SEBI-SG-2.1",
     description |-> "System Governance and Risk Management"],
    [terms |-> <<"data-integrity", "validation", "consistency">>,
     control |-> "SEBI-DI-3.1",
     description |-> "Data Integrity and Validation"]>>

\* mappings.append({...}) for each block that matched
to_mappings(framework, matched, level) ==
  [i \in 1..Len(matched) |->
     Mapping(framework, matched[i].control, matched[i].description, level)]

\* Every block is tried, in order; each that matches appends its control
matching_blocks(patterns, rule_lower) ==
  SelectSeq(patterns, LAMBDA p : any_term_in(p.terms, rule_lower))

_map_to_iso27001(rule_id, level) ==
  to_mappings("ISO27001", matching_blocks(iso27001_patterns, lower(rule_id)), level)

_map_to_rbi_framework(rule_id, level) ==
  to_mappings("RBI-IT-Framework", matching_blocks(rbi_patterns, lower(rule_id)), level)

_map_to_sebi_guidelines(rule_id, level) ==
  to_mappings("SEBI-Guidelines", matching_blocks(sebi_patterns, lower(rule_id)), level)

\* is_critical_level without the level 'critical'
is_critical_level_error_only(level) == level = "error"

\* `level in ['error', 'critical']`
is_critical_level(level) == level \in {"error", "critical"}

_calculate_priority(level, rule_id) ==
  IF is_critical_level(level) THEN "HIGH"
  ELSE IF level = "warning" THEN "MEDIUM"
  ELSE "LOW"

\* ComplianceReportGenerator.__init__: self.report (the fields the scripts
\* never touch again, metadata, remediation_summary and audit_trail, are left out)
initial_report(stds) ==
  [executive_summary |->
     [total_findings |-> 0, critical_findings |-> 0,
      compliance_score |-> Rat(0, 1), risk_level |-> "LOW"],
   compliance_mappings |->
     [s \in Range(stds) |->
        [total_controls |-> 0, failed_controls |-> 0,
         compliance_percentage |-> Rat(100, 1),
         findings_by_control |-> [c \in {} |-> c]]],
   detailed_findings |-> <<>>]

\* update_control with the critical counter assigned from the control's total
\* instead of incremented
update_control_assigning(by_control, mapping, level) ==
  LET control == mapping.control
      known == IF control \in DOMAIN by_control
                 THEN by_control
                 ELSE by_control @@
                      (control :> [total_findings |-> 0, critical_findings |-> 0,
                                   description |-> mapping.description])
      counted == [known EXCEPT ![control].total_findings = @ + 1]
  IN IF is_critical_level(level)
       THEN [counted EXCEPT ![control].critical_findings =
                               counted[control].total_findings]
       ELSE counted

\* One iteration of the loop of _update_compliance_stats: the per-control
\* entry is created on first sight, then counted
update_control(by_control, mapping, level) ==
  LET control == mapping.control
      known == IF control \in DOMAIN by_control
                 THEN by_control
                 ELSE by_control @@
                      (control :> [total_findings |-> 0, critical_findings |-> 0,
                                   description |-> mapping.description])
      counted == [known EXCEPT ![control].total_findings = @ + 1]
  IN IF is_critical_level(level)
       THEN [counted EXCEPT ![control].critical_findings = @ + 1]
       ELSE counted

RECURSIVE update_controls(_, _, _, _)
update_controls(by_control, mappings, level, i) ==
  IF i > Len(mappings) THEN by_control
  ELSE update_controls(update_control(by_control, mappings[i], level),
                       mappings, level, i + 1)

_update_compliance_stats(rep, framework, mappings, level) ==
  IF framework \notin DOMAIN rep.compliance_mappings THEN rep
  ELSE [rep EXCEPT !.compliance_mappings[framework].findings_by_control =
                      update_controls(@, mappings, level, 1)]


\* An exception leaves the report as mutated so far: every operator that can
\* raise returns the report together with whether it raised
Returned(rep) == [raised |-> FALSE, report |-> rep]
Raised(rep)   == [raised |-> TRUE, report |-> rep]

\* map_framework without the test that the framework was requested
map_framework_unrequested(acc, stds, framework, mappings, level) ==
  IF mappings # <<>>
    THEN [report |-> _update_compliance_stats(acc.report, framework, mappings, level),
          compliance_mappings |-> acc.compliance_mappings \o mappings]
    ELSE acc

\* Lines 117-133, one `if "<framework>" in self.standards` block: the
\* finding's citations are extended and the statistics updated when the
\* framework was requested and its mapper returned something
map_framework(acc, stds, framework, mappings, level) ==
  IF InList(framework, stds) /\ mappings # <<>>
    THEN [report |-> _update_compliance_stats(acc.report, framework, mappings, level),
          compliance_mappings |-> acc.compliance_mappings \o mappings]
    ELSE acc

\* append_finding recording only the findings that cite a control
append_finding_if_cited(acc, rule_id, level, message, source_file) ==
  IF acc.compliance_mappings = <<>> THEN acc.report
  ELSE [acc.report EXCEPT !.detailed_findings =
          Append(@, [rule_id |-> rule_id, severity |-> level, message |-> message,
                     source_file |-> source_file,
                     compliance_mappings |-> acc.compliance_mappings,
                     remediation_priority |-> _calculate_priority(level, rule_id)])]

\* Lines 107-114 and 135: the finding record, appended last
append_finding(acc, rule_id, level, message, source_file) ==
  [acc.report EXCEPT !.detailed_findings =
     Append(@, [rule_id |-> rule_id, severity |-> level, message |-> message,
                source_file |-> source_file,
                compliance_mappings |-> acc.compliance_mappings,
                remediation_priority |-> _calculate_priority(level, rule_id)])]

\* track_critical keeping risk_level up to date as it counts
track_critical_updating_risk(rep, level) ==
  IF is_critical_level(level)
    THEN [rep EXCEPT !.executive_summary.critical_findings = @ + 1,
                     !.executive_summary.risk_level =
                        IF rep.executive_summary.critical_findings + 1 > 5
                          THEN "HIGH" ELSE "MEDIUM"]
    ELSE rep

\* Lines 102-104
track_critical(rep, level) ==
  IF is_critical_level(level)
    THEN [rep EXCEPT !.executive_summary.critical_findings = @ + 1]
    ELSE rep

\* The mapper of a framework
mapper_of(framework, rule_id, level) ==
  CASE framework = "ISO27001" -> _map_to_iso27001(rule_id, level)
    [] framework = "RBI-IT-Framework" -> _map_to_rbi_framework(rule_id, level)
    [] framework = "SEBI-Guidelines" -> _map_to_sebi_guidelines(rule_id, level)
    [] OTHER -> <<>>

RECURSIVE map_in_requested_order(_, _, _, _, _)
map_in_requested_order(acc, stds, i, rule_id, level) ==
  IF i > Len(stds) THEN acc
  ELSE map_in_requested_order(
         map_framework(acc, stds, stds[i], mapper_of(stds[i], rule_id, level), level),
         stds, i + 1, rule_id, level)

\* map_extracted going through the frameworks in the order of --standards
map_extracted_in_requested_order(rep, stds, rule_id, level, message, source_file) ==
  IF rule_id = NonStr
       /\ \E f \in {"ISO27001", "RBI-IT-Framework", "SEBI-Guidelines"} : InList(f, stds)
    THEN Raised(track_critical(rep, level))
    ELSE Returned(append_finding(
           map_in_requested_order(
             [report |-> track_critical(rep, level), compliance_mappings |-> <<>>],
             stds, 1, rule_id, level),
           rule_id, level, message, source_file))

\* map_extracted calling every mapper, whatever was requested
map_extracted_unrequested(rep, stds, rule_id, level, message, source_file) ==
  IF rule_id = NonStr
    THEN Raised(track_critical(rep, level))
    ELSE Returned(append_finding(
           map_framework_unrequested(
             map_framework_unrequested(
               map_framework_unrequested(
                 [report |-> track_critical(rep, level), compliance_mappings |-> <<>>],
                 stds, "ISO27001", _map_to_iso27001(rule_id, level), level),
               stds, "RBI-IT-Framework", _map_to_rbi_framework(rule_id, level), level),
             stds, "SEBI-Guidelines", _map_to_sebi_guidelines(rule_id, level), level),
           rule_id, level, message, source_file))

\* Lines 106-135, for a rule_id the mappers accept: the three framework
\* blocks in the order of the code, then the append
map_tracked(rep, stds, rule_id, level, message, source_file) ==
  append_finding(
    map_framework(
      map_framework(
        map_framework(
          [report |-> rep, compliance_mappings |-> <<>>],
          stds, "ISO27001", _map_to_iso27001(rule_id, level), level),
        stds, "RBI-IT-Framework", _map_to_rbi_framework(rule_id, level), level),
      stds, "SEBI-Guidelines", _map_to_sebi_guidelines(rule_id, level), level),
    rule_id, level, message, source_file)

\* Lines 102-135, once rule_id, level and message are extracted
map_extracted(rep, stds, rule_id, level, message, source_file) ==
  IF rule_id = NonStr
       /\ \E f \in {"ISO27001", "RBI-IT-Framework", "SEBI-Guidelines"} : InList(f, stds)
    THEN Raised(track_critical(rep, level))              \* rule_id.lower()
    ELSE Returned(map_tracked(track_critical(rep, level), stds, rule_id, level,
                              message, source_file))

_map_finding_to_compliance(rep, stds, result, source_file) ==
  IF ~result.is_dict THEN Raised(rep)                    \* result.get: line 98
  ELSE IF result.level = NonStr THEN Raised(rep)         \* .lower(): line 99
  ELSE IF result.message = NonDict THEN Raised(rep)      \* .get('text'): line 100
  ELSE map_extracted(rep, stds, get(result.ruleId, "unknown"),
                     lower(get(result.level, "note")), message_text(result),
                     source_file)

RECURSIVE map_results(_, _, _, _, _)
map_results(rep, stds, results, source_file, i) ==
  IF i > Len(results) THEN Returned(rep)
  ELSE LET r == _map_finding_to_compliance(rep, stds, results[i], source_file)
       IN IF r.raised THEN r
          ELSE map_results(r.report, stds, results, source_file, i + 1)

\* _process_run counting the results of a run once they are all mapped
_process_run_counting_mapped(rep, stds, run, source_file) ==
  LET r == map_results(rep, stds, run, source_file, 1)
  IN IF r.raised THEN r
     ELSE Returned([r.report EXCEPT !.executive_summary.total_findings = @ + Len(run)])

_process_run(rep, stds, run, source_file) ==
  map_results([rep EXCEPT !.executive_summary.total_findings = @ + Len(run)],
              stds, run, source_file, 1)

RECURSIVE process_runs(_, _, _, _, _)
process_runs(rep, stds, runs, source_file, i) ==
  IF i > Len(runs) THEN Returned(rep)
  ELSE LET r == _process_run(rep, stds, runs[i], source_file)
       IN IF r.raised THEN r
          ELSE process_runs(r.report, stds, runs, source_file, i + 1)

_process_sarif_file(rep, stds, sarif_file, source_file) ==
  IF ~sarif_file.readable THEN Raised(rep)               \* open / json.load
  ELSE process_runs(rep, stds, sarif_file.runs, source_file, 1)

RECURSIVE sum_critical(_, _)
sum_critical(by_control, controls) ==
  IF controls = {} THEN 0
  ELSE LET c == CHOOSE x \in controls : TRUE
       IN by_control[c].critical_findings + sum_critical(by_control, controls \ {c})

\* finalize_framework counting the critical findings instead of the controls
\* that have one
finalize_framework_counting_findings(data) ==
  LET by_control == data.findings_by_control
      failed_controls == sum_critical(by_control, DOMAIN by_control)
      n == Cardinality(DOMAIN by_control)
      total_controls == IF n > 1 THEN n ELSE 1
  IN [data EXCEPT
        !.failed_controls = failed_controls,
        !.total_controls = total_controls,
        !.compliance_percentage =
           RatMax(Rat(0, 1),
                  Rat(100 * total_controls - 100 * failed_controls, total_controls))]

\* finalize_framework adding to the stored failed_controls instead of
\* assigning it
finalize_framework_accumulating(data) ==
  LET by_control == data.findings_by_control
      failed_controls ==
        Cardinality({c \in DOMAIN by_control : by_control[c].critical_findings > 0})
      n == Cardinality(DOMAIN by_control)
      total_controls == IF n > 1 THEN n ELSE 1
  IN [data EXCEPT
        !.failed_controls = @ + failed_controls,
        !.total_controls = total_controls,
        !.compliance_percentage =
           RatMax(Rat(0, 1),
                  Rat(100 * total_controls - 100 * failed_controls, total_controls))]

\* Lines 261-270 for one framework
finalize_framework(data) ==
  LET by_control == data.findings_by_control
      failed_controls ==
        Cardinality({c \in DOMAIN by_control : by_control[c].critical_findings > 0})
      n == Cardinality(DOMAIN by_control)
      total_controls == IF n > 1 THEN n ELSE 1
  IN [data EXCEPT
        !.failed_controls = failed_controls,
        !.total_controls = total_controls,
        !.compliance_percentage =
           RatMax(Rat(0, 1),
                  Rat(100 * total_controls - 100 * failed_controls, total_controls))]

RECURSIVE RatSum(_, _)
RatSum(f, S) ==
  IF S = {} THEN Rat(0, 1)
  ELSE LET x == CHOOSE y \in S : TRUE IN RatAdd(f[x], RatSum(f, S \ {x}))

\* overall_compliance dividing by the three frameworks the mappers know
overall_compliance_over_three(mappings) ==
  IF DOMAIN mappings # {}
    THEN LET s == RatSum([f \in DOMAIN mappings |-> mappings[f].compliance_percentage],
                         DOMAIN mappings)
         IN Rat(s[1], s[2] * Len(<<"ISO27001", "RBI-IT-Framework", "SEBI-Guidelines">>))
    ELSE Rat(100, 1)

\* Lines 272-280
overall_compliance(mappings) ==
  IF DOMAIN mappings # {}
    THEN LET s == RatSum([f \in DOMAIN mappings |-> mappings[f].compliance_percentage],
                         DOMAIN mappings)
         IN Rat(s[1], s[2] * Cardinality(DOMAIN mappings))
    ELSE Rat(100, 1)

\* risk_level_of with the HIGH threshold off by one
risk_level_from_five(critical_findings) ==
  IF critical_findings >= 5 THEN "HIGH"
  ELSE IF critical_findings > 0 THEN "MEDIUM"
  ELSE "LOW"

\* Lines 282-289
risk_level_of(critical_findings) ==
  IF critical_findings > 5 THEN "HIGH"
  ELSE IF critical_findings > 0 THEN "MEDIUM"
  ELSE "LOW"

_finalize_report(rep) ==
  LET mappings == [f \in DOMAIN rep.compliance_mappings |->
                     finalize_framework(rep.compliance_mappings[f])]
  IN [rep EXCEPT
        !.compliance_mappings = mappings,
        !.executive_summary.compliance_score = overall_compliance(mappings),
        !.executive_summary.risk_level =
           risk_level_of(rep.executive_summary.critical_findings)]


(***************************************************************************)
(* security-quality-gates.py: SecurityQualityGates                         *)
(***************************************************************************)
\* SecurityQualityGates.__init__: self.quality_gates
default_quality_gates ==
  [critical |-> [max_allowed |-> 0, fail_build |-> TRUE,
                 message |-> "Critical security vulnerabilities must be resolved before deployment"],
   high     |-> [max_allowed |-> 0, fail_build |-> TRUE,
                 message |-> "High severity security issues must be addressed"],
   medium   |-> [max_allowed |-> 5, fail_build |-> FALSE,
                 message |-> "Medium severity issues should be reviewed and scheduled for remediation"],
   low      |-> [max_allowed |-> 20, fail_build |-> FALSE,
                 message |-> "Low severity issues should be tracked for future remediation"]]

\* SecurityQualityGates.__init__: self.compliance_gates
compliance_gates ==
  [rbi      |-> [min_score |-> 90, fail_build |-> TRUE,
                 message |-> "RBI IT Framework compliance score below minimum threshold"],
   sebi     |-> [min_score |-> 85, fail_build |-> TRUE,
                 message |-> "SEBI Guidelines compliance score below minimum threshold"],
   iso27001 |-> [min_score |-> 80, fail_build |-> FALSE,
                 message |-> "ISO 27001 compliance score below target"]]

\* The keys of `findings`, in the order the dict is built
Severities == <<"critical", "high", "medium", "low">>

\* Lines 69-77: the bucket of one result's level (no lower(), no type check)
severity_of_level(level) ==
  IF level = "error" THEN "critical"
  ELSE IF level = "warning" THEN "high"
  ELSE IF level = "note" THEN "medium"
  ELSE "low"

\* Lines 67-77 over the results of one file, from result i of run r on: the
\* counts so far stay when a result raises
RECURSIVE count_results(_, _, _)
\* count_results leaving out the results whose level is none of the three
RECURSIVE count_results_known_levels(_, _, _)
count_results_known_levels(counts, results, i) ==
  IF i > Len(results) THEN Returned(counts)
  ELSE IF ~results[i].is_dict THEN Raised(counts)
  ELSE LET s == severity_of_level(get(results[i].level, "note"))
       IN count_results_known_levels(
            IF s = "low" THEN counts ELSE [counts EXCEPT ![s] = @ + 1], results, i + 1)

count_results(counts, results, i) ==
  IF i > Len(results) THEN Returned(counts)
  ELSE IF ~results[i].is_dict THEN Raised(counts)          \* result.get
  ELSE LET s == severity_of_level(get(results[i].level, "note"))
       IN count_results([counts EXCEPT ![s] = @ + 1], results, i + 1)

RECURSIVE count_runs(_, _, _)
count_runs(counts, runs, r) ==
  IF r > Len(runs) THEN Returned(counts)
  ELSE LET c == count_results(counts, runs[r], 1)
       IN IF c.raised THEN c ELSE count_runs(c.report, runs, r + 1)

\* Lines 61-80: every file inside its own try/except
RECURSIVE count_files(_, _, _)
count_files(counts, files, f) ==
  IF f > Len(files) THEN counts
  ELSE count_files(
         IF ~files[f].readable THEN counts
         ELSE count_runs(counts, files[f].runs, 1).report,
         files, f + 1)

\* severity_violations with the threshold itself counted as exceeded
RECURSIVE severity_violations_at_threshold(_, _, _)
severity_violations_at_threshold(gates, counts, i) ==
  IF i > Len(Severities) THEN <<>>
  ELSE LET severity == Severities[i]
           gate == gates[severity]
       IN (IF counts[severity] >= gate.max_allowed
             THEN <<[type |-> "security_finding", severity |-> severity,
                     count |-> counts[severity], max_allowed |-> gate.max_allowed,
                     fail_build |-> gate.fail_build, message |-> gate.message]>>
             ELSE <<>>)
          \o severity_violations_at_threshold(gates, counts, i + 1)

\* Lines 83-95
RECURSIVE severity_violations(_, _, _)
severity_violations(gates, counts, i) ==
  IF i > Len(Severities) THEN <<>>
  ELSE LET severity == Severities[i]
           gate == gates[severity]
       IN (IF counts[severity] > gate.max_allowed
             THEN <<[type |-> "security_finding", severity |-> severity,
                     count |-> counts[severity], max_allowed |-> gate.max_allowed,
                     fail_build |-> gate.fail_build, message |-> gate.message]>>
             ELSE <<>>)
          \o severity_violations(gates, counts, i + 1)

evaluate_sarif_results(gates, files) ==
  LET counts == count_files([s \in Range(Severities) |-> 0], files, 1)
  IN [findings |-> counts, violations |-> severity_violations(gates, counts, 1)]

\* score_violations with a score at the minimum counted as below it
RECURSIVE score_violations_at_threshold(_, _)
score_violations_at_threshold(frameworks, i) ==
  IF i > Len(frameworks) THEN <<>>
  ELSE IF frameworks[i].score.kind = "bad" THEN <<>>
  ELSE LET framework == frameworks[i].framework
           score == IF frameworks[i].score.kind = "absent" THEN 0
                    ELSE frameworks[i].score.value
           known == framework \in DOMAIN compliance_gates
           min_score == IF known THEN compliance_gates[framework].min_score ELSE 0
       IN (IF score <= min_score
             THEN <<[type |-> "compliance_score", framework |-> framework,
                     score |-> score, min_score |-> min_score,
                     fail_build |-> IF known THEN compliance_gates[framework].fail_build
                                    ELSE FALSE,
                     message |-> IF known THEN compliance_gates[framework].message
                                 ELSE "compliance score below threshold"]>>
             ELSE <<>>)
          \o score_violations_at_threshold(frameworks, i + 1)

\* Lines 109-122 from entry i on; a score that cannot be compared raises and
\* the violations found so far are returned by line 127
RECURSIVE score_violations(_, _)
score_violations(frameworks, i) ==
  IF i > Len(frameworks) THEN <<>>
  ELSE IF frameworks[i].score.kind = "bad" THEN <<>>
  ELSE LET framework == frameworks[i].framework
           score == IF frameworks[i].score.kind = "absent" THEN 0
                    ELSE frameworks[i].score.value
           known == framework \in DOMAIN compliance_gates
           min_score == IF known THEN compliance_gates[framework].min_score ELSE 0
       IN (IF score < min_score
             THEN <<[type |-> "compliance_score", framework |-> framework,
                     score |-> score, min_score |-> min_score,
                     fail_build |-> IF known THEN compliance_gates[framework].fail_build
                                    ELSE FALSE,
                     message |-> IF known THEN compliance_gates[framework].message
                                 ELSE "compliance score below threshold"]>>
             ELSE <<>>)
          \o score_violations(frameworks, i + 1)

evaluate_compliance_scores(file) ==
  IF ~file.readable THEN <<>> ELSE score_violations(file.frameworks, 1)

\* Line 134
critical_rules ==
  <<"payment-data-exposure", "weak-transaction-encryption",
    "pii-exposure", "rbi-data-localization">>

\* Lines 153-160 for one result, from critical rule k on
RECURSIVE match_rules(_, _, _)
match_rules(found, result, k) ==
  IF k > Len(critical_rules) THEN Returned(found)
  ELSE IF result.ruleId = NonStr THEN Raised(found)        \* rule_id.lower()
  ELSE LET rule_id == get(result.ruleId, "")
       IN IF StrIn(critical_rules[k], lower(rule_id))
            THEN IF result.message = NonDict THEN Raised(found)
                 ELSE match_rules(
                        Append(found, [rule |-> critical_rules[k], rule_id |-> rule_id,
                                       message |-> message_text(result),
                                       level |-> get(result.level, "note")]),
                        result, k + 1)
            ELSE match_rules(found, result, k + 1)

RECURSIVE match_results(_, _, _)
match_results(found, results, i) ==
  IF i > Len(results) THEN Returned(found)
  ELSE IF ~results[i].is_dict THEN Raised(found)           \* result.get
  ELSE LET m == match_rules(found, results[i], 1)
       IN IF m.raised THEN m ELSE match_results(m.report, results, i + 1)

RECURSIVE match_runs(_, _, _)
match_runs(found, runs, r) ==
  IF r > Len(runs) THEN Returned(found)
  ELSE LET m == match_results(found, runs[r], 1)
       IN IF m.raised THEN m ELSE match_runs(m.report, runs, r + 1)

\* Lines 143-163
RECURSIVE match_files(_, _, _)
match_files(found, files, f) ==
  IF f > Len(files) THEN found
  ELSE match_files(
         IF ~files[f].readable THEN found
         ELSE match_runs(found, files[f].runs, 1).report,
         files, f + 1)

\* check_financial_specific_rules failing the build only for error-level hits
check_financial_by_level(files) ==
  LET found_critical_violations == match_files(<<>>, files, 1)
  IN IF found_critical_violations # <<>>
       THEN <<[type |-> "financial_security_violation",
               violations |-> found_critical_violations,
               fail_build |-> \E i \in DOMAIN found_critical_violations :
                                 found_critical_violations[i].level = "error",
               message |-> "Critical financial security violations found"]>>
       ELSE <<>>

\* check_financial_specific_rules with one violation for every hit
check_financial_per_finding(files) ==
  LET found_critical_violations == match_files(<<>>, files, 1)
  IN [i \in DOMAIN found_critical_violations |->
        [type |-> "financial_security_violation",
         violations |-> <<found_critical_violations[i]>>,
         fail_build |-> TRUE,
         message |-> "Critical financial security violations found"]]

check_financial_specific_rules(files) ==
  LET found_critical_violations == match_files(<<>>, files, 1)
  IN IF found_critical_violations # <<>>
       THEN <<[type |-> "financial_security_violation",
               violations |-> found_critical_violations,
               fail_build |-> TRUE,
               message |-> "Critical financial security violations found"]>>
       ELSE <<>>

\* [v for v in all_violations if v.get('fail_build', False)]
fail_build_violations(all) == SelectSeq(all, LAMBDA v : v.fail_build)

\* generate_quality_gate_report writing FAIL as the decision of a WARNING
quality_gate_report_failing_warnings(counts, all) ==
  LET status == IF fail_build_violations(all) # <<>> THEN "FAIL"
                ELSE IF all # <<>> THEN "WARNING"
                ELSE "PASS"
  IN [quality_gate_status |-> status,
      findings_summary |-> counts,
      violations |-> all,
      build_decision |-> IF status = "PASS" THEN "PASS" ELSE "FAIL"]

\* generate_quality_gate_report failing on any violation
quality_gate_report_any_fails(counts, all) ==
  LET status == IF all # <<>> THEN "FAIL" ELSE "PASS"
  IN [quality_gate_status |-> status,
      findings_summary |-> counts,
      violations |-> all,
      build_decision |-> IF status = "FAIL" THEN "FAIL" ELSE "PASS"]

generate_quality_gate_report(counts, all) ==
  LET status == IF fail_build_violations(all) # <<>> THEN "FAIL"
                ELSE IF all # <<>> THEN "WARNING"
                ELSE "PASS"
  IN [quality_gate_status |-> status,
      findings_summary |-> counts,
      violations |-> all,
      build_decision |-> IF status = "FAIL" THEN "FAIL" ELSE "PASS"]

\* exit_status leaving with 1 on warnings too
exit_status_on_any(all) == IF all # <<>> THEN 1 ELSE 0

\* main, lines 257-267: the argument of sys.exit
exit_status(all) ==
  IF fail_build_violations(all) # <<>> THEN 1
  ELSE IF all # <<>> THEN 0
  ELSE 0

\* main, lines 210-218
configure_gates(argv) ==
  [default_quality_gates EXCEPT
     !.critical.fail_build = IF ~argv.fail_on_critical THEN FALSE ELSE @,
     !.high.fail_build = IF ~argv.fail_on_high THEN FALSE ELSE @,
     !.medium.max_allowed = argv.max_medium]

\* collect_violations putting the financial violation first
collect_violations_financial_first(gates, argv, files) ==
  LET security == evaluate_sarif_results(gates, files).violations
      compliance == IF argv.compliance_file.exists
                      THEN evaluate_compliance_scores(argv.compliance_file)
                      ELSE <<>>
      financial == check_financial_specific_rules(files)
  IN financial \o security \o compliance

\* main, lines 220-232
collect_violations(gates, argv, files) ==
  LET security == evaluate_sarif_results(gates, files).violations
      compliance == IF argv.compliance_file.exists
                      THEN evaluate_compliance_scores(argv.compliance_file)
                      ELSE <<>>
      financial == check_financial_specific_rules(files)
  IN security \o compliance \o financial


\* quality_gates after an evaluation that uses up the allowance it counted
gates_after_consuming(gates, counts) ==
  [s \in DOMAIN gates |->
     [gates[s] EXCEPT !.max_allowed = IF @ > counts[s] THEN @ - counts[s] ELSE 0]]

\* Lines 55-174: self.quality_gates after evaluate_sarif_results,
\* evaluate_compliance_scores and check_financial_specific_rules, which read
\* the tables and assign nothing to them
gates_after_evaluation(gates, counts) == gates

(***************************************************************************)
(* process-sarif.py: SARIFProcessor                                        *)
(***************************************************************************)
\* Lines 15-36: the dicts, in insertion order
rbi_mappings ==
  <<[pattern |-> "sql-injection", mapping |-> "RBI-IT-4.2.1"],
    [pattern |-> "weak-cryptographic-algorithm", mapping |-> "RBI-IT-4.3.2"],
    [pattern |-> "hardcoded-credentials", mapping |-> "RBI-IT-4.1.3"],
    [pattern |-> "sensitive-data-exposure", mapping |-> "RBI-IT-4.3.1"],
    [pattern |-> "payment-data-exposure", mapping |-> "RBI-IT-4.3.3"]>>

iso27001_mappings ==
  <<[pattern |-> "sql-injection", mapping |-> "A.14.2.5"],
    [pattern |-> "weak-cryptographic-algorithm", mapping |-> "A.10.1.1"],
    [pattern |-> "hardcoded-credentials", mapping |-> "A.9.4.3"],
    [pattern |-> "access-control", mapping |-> "A.9.1.1"],
    [pattern |-> "authentication", mapping |-> "A.9.2.1"]>>

sebi_mappings ==
  <<[pattern |-> "system-governance", mapping |-> "SEBI-IT-1.1"],
    [pattern |-> "risk-management", mapping |-> "SEBI-IT-2.1"],
    [pattern |-> "data-integrity", mapping |-> "SEBI-IT-3.1"],
    [pattern |-> "audit-trail", mapping |-> "SEBI-IT-4.1"]>>

\* Python's None, what the get_*_mapping functions return without a match
None == [control |-> "<none>"]

\* Lines 97-104, 108-115, 119-126: the first pattern found in the lowercased
\* rule id decides
RECURSIVE first_mapping(_, _, _, _, _)
first_mapping(table, rule_lower, prefix, category, k) ==
  IF k > Len(table) THEN None
  ELSE IF StrIn(table[k].pattern, rule_lower)
    THEN [control |-> table[k].mapping,
          description |-> <<prefix, table[k].mapping>>,
          category |-> category]
    ELSE first_mapping(table, rule_lower, prefix, category, k + 1)

get_rbi_mapping(rule_lower) ==
  first_mapping(rbi_mappings, rule_lower, "RBI IT Framework control ",
                "Information Security", 1)

get_iso27001_mapping(rule_lower) ==
  first_mapping(iso27001_mappings, rule_lower, "ISO 27001 control ",
                "Information Security Management", 1)

get_sebi_mapping(rule_lower) ==
  first_mapping(sebi_mappings, rule_lower, "SEBI IT Governance ",
                "System Governance", 1)

\* Lines 64-68 and 85-93 for a rule id that is a string
processed_result(rule_id, rule_lower, message, level) ==
  [rule_id |-> rule_id, message |-> message, level |-> level,
   compliance_mappings |->
     [rbi |-> get_rbi_mapping(rule_lower),
      iso27001 |-> get_iso27001_mapping(rule_lower),
      sebi |-> get_sebi_mapping(rule_lower)]]

\* Lines 57-93: the processed result, or raised
process_result(result) ==
  IF ~result.is_dict THEN [raised |-> TRUE]                 \* result.get
  ELSE IF result.message = NonDict THEN [raised |-> TRUE]   \* .get('text')
  ELSE IF result.ruleId = NonStr THEN [raised |-> TRUE]     \* rule_id.lower()
  ELSE [raised |-> FALSE,
        value |-> processed_result(get(result.ruleId, ""),
                                   lower(get(result.ruleId, "")),
                                   message_text(result),
                                   get(result.level, "note"))]

\* Lines 45-49 over the results of the file in reading order
RECURSIVE process_results(_, _, _)
process_results(acc, results, i) ==
  IF i > Len(results) THEN [raised |-> FALSE, value |-> acc]
  ELSE IF process_result(results[i]).raised THEN [raised |-> TRUE]
  ELSE process_results(Append(acc, process_result(results[i]).value), results, i + 1)

RECURSIVE flatten_runs(_, _)
flatten_runs(runs, r) ==
  IF r > Len(runs) THEN <<>> ELSE runs[r] \o flatten_runs(runs, r + 1)

\* Lines 38-55: any exception gives the empty list
process_sarif_file(sarif_file) ==
  IF ~sarif_file.readable THEN <<>>
  ELSE IF process_results(<<>>, flatten_runs(sarif_file.runs, 1), 1).raised THEN <<>>
  ELSE process_results(<<>>, flatten_runs(sarif_file.runs, 1), 1).value

\* Lines 143-153: the results in each severity bucket
count_severity(results, severity) ==
  Cardinality({i \in DOMAIN results : severity_of_level(results[i].level) = severity})

\* Lines 156-162: the results with a mapping for the framework
count_mapped(results, framework) ==
  Cardinality({i \in DOMAIN results : results[i].compliance_mappings[framework] # None})

\* compliance_status_of with HIGH_RISK from five high findings on
compliance_status_from_five(critical_count, high_count) ==
  IF critical_count > 0 THEN "CRITICAL"
  ELSE IF high_count >= 5 THEN "HIGH_RISK"
  ELSE IF high_count > 0 THEN "MEDIUM_RISK"
  ELSE "PASS"

\* Lines 164-170
compliance_status_of(critical_count, high_count) ==
  IF critical_count > 0 THEN "CRITICAL"
  ELSE IF high_count > 5 THEN "HIGH_RISK"
  ELSE IF high_count > 0 THEN "MEDIUM_RISK"
  ELSE "PASS"

\* Lines 128-172
generate_compliance_summary(results) ==
  [total_findings |-> Len(results),
   by_severity |-> [s \in Range(Severities) |-> count_severity(results, s)],
   by_framework |-> [f \in {"rbi", "iso27001", "sebi"} |-> count_mapped(results, f)],
   compliance_status |->
     compliance_status_of(count_severity(results, "critical"),
                          count_severity(results, "high"))]

\* Lines 181-206: the report written and the exit status
processor_main(sarif_file) ==
  [summary |-> generate_compliance_summary(process_sarif_file(sarif_file)),
   detailed_results |-> process_sarif_file(sarif_file),
   exit_code |->
     IF generate_compliance_summary(process_sarif_file(sarif_file)).compliance_status
          = "CRITICAL"
       THEN 1 ELSE 0]

(***************************************************************************)
(* Inputs: SARIF directories, command lines                                *)
(***************************************************************************)
\* A result that is a JSON object with the given ruleId and level
Result(ruleId, level) ==
  [is_dict |-> TRUE, ruleId |-> ruleId, level |-> level, message |-> Absent]

\* A result that is not a JSON object (a string, a number, null)
NotAnObject ==
  [is_dict |-> FALSE, ruleId |-> Absent, level |-> Absent, message |-> Absent]

\* A file open() or json.load() raises on
Unreadable == [readable |-> FALSE, runs |-> <<>>]

\* The results s cut into runs after the positions in cuts
RECURSIVE split_runs(_, _, _, _)
split_runs(s, cuts, i, run) ==
  IF i > Len(s) THEN <<>>
  ELSE IF i \in cuts \/ i = Len(s)
    THEN <<Append(run, s[i])>> \o split_runs(s, cuts, i + 1, <<>>)
    ELSE split_runs(s, cuts, i + 1, Append(run, s[i]))

\* The files that hold k results drawn from `results`, in every split into
\* runs; with k = 0 the file without runs and the unreadable file
FilesOfSize(results, k) ==
  IF k = 0 THEN {Unreadable, [readable |-> TRUE, runs |-> <<>>]}
  ELSE {[readable |-> TRUE, runs |-> split_runs(s, cuts, 1, <<>>)] :
          s \in [1..k -> results], cuts \in SUBSET (1..(k - 1))}

\* The directories of total size c, a file of k results counting 1 + k
RECURSIVE DirsOfSize(_, _)
DirsOfSize(results, c) ==
  IF c = 0 THEN {<<>>}
  ELSE UNION {{<<f>> \o d : f \in FilesOfSize(results, fc - 1),
                            d \in DirsOfSize(results, c - fc)} : fc \in 1..c}

SarifDirs(results, size) == UNION {DirsOfSize(results, c) : c \in 0..size}

\* The same with every file holding its results in a single run
SingleRunFilesOfSize(results, k) ==
  IF k = 0 THEN {Unreadable, [readable |-> TRUE, runs |-> <<>>]}
  ELSE {[readable |-> TRUE, runs |-> <<s>>] : s \in [1..k -> results]}

RECURSIVE SingleRunDirsOfSize(_, _)
SingleRunDirsOfSize(results, c) ==
  IF c = 0 THEN {<<>>}
  ELSE UNION {{<<f>> \o d : f \in SingleRunFilesOfSize(results, fc - 1),
                            d \in SingleRunDirsOfSize(results, c - fc)} : fc \in 1..c}

SingleRunDirs(results, size) ==
  UNION {SingleRunDirsOfSize(results, c) : c \in 0..size}

NoComplianceFile == [exists |-> FALSE, readable |-> FALSE, frameworks |-> <<>>]

\* argparse defaults, lines 200-206
default_argv ==
  [fail_on_critical |-> TRUE, fail_on_high |-> TRUE, max_medium |-> 5,
   compliance_file |-> NoComplianceFile]

(***************************************************************************)
(* State                                                                   *)
(***************************************************************************)
VARIABLES
  standards,       \* ComplianceReportGenerator.standards (--standards)
  sarif_files,     \* the *.sarif files of --sarif-dir, in glob order
  argv,            \* the command line of security-quality-gates.py
  pc,              \* "files": generate_report's loop; "reported": the report
                   \* is finalized and written; "exited": the gate has exited;
                   \* "processed": process-sarif.py has run on one file
  file_idx,        \* files generate_report has been through
  caught,          \* the last file took the except branch (lines 71-73)
  errors,          \* "Error processing ..." lines generate_report printed
  report,          \* ComplianceReportGenerator.report
  quality_gates,   \* SecurityQualityGates.quality_gates
  findings,        \* main: findings
  all_violations,  \* main: all_violations
  gate_report,     \* main: report
  exit_code,       \* the gate's exit status, -1 while it has not exited
  processor_report, \* process-sarif.py main: report and exit status
  folds            \* the folds running concurrently against the report: the
                   \* finding of each, the line it is at, the counter it read

vars == <<standards, sarif_files, argv, pc, file_idx, caught, errors, report,
          quality_gates, findings, all_violations, gate_report, exit_code,
          processor_report, folds>>

gen_vars == <<file_idx, caught, errors, report>>
gate_vars == <<quality_gates, findings, all_violations, gate_report, exit_code>>
input_vars == <<standards, sarif_files, argv>>

InitState(stds_choices, dirs, argvs) ==
  /\ standards \in stds_choices
  /\ sarif_files \in dirs
  /\ argv \in argvs
  /\ pc = "files"
  /\ file_idx = 0
  /\ caught = FALSE
  /\ errors = 0
  /\ report = initial_report(standards)
  /\ quality_gates = default_quality_gates
  /\ findings = [s \in Range(Severities) |-> 0]
  /\ all_violations = <<>>
  /\ gate_report = [quality_gate_status |-> "", findings_summary |-> findings,
                    violations |-> <<>>, build_decision |-> ""]
  /\ exit_code = -1
  /\ processor_report = processor_main(Unreadable)

\* The scripts as the workflow runs them: one process each, no concurrent fold
InitWith(stds_choices, dirs, argvs) ==
  /\ InitState(stds_choices, dirs, argvs)
  /\ folds = <<>>

\* generate_report, lines 68-73: one iteration of the loop over the files
ProcessSarifFile ==
  /\ pc = "files"
  /\ file_idx < Len(sarif_files)
  /\ LET r == _process_sarif_file(report, standards,
                                  sarif_files[file_idx + 1], file_idx + 1)
     IN /\ report' = r.report
        /\ caught' = r.raised
        /\ errors' = IF r.raised THEN errors + 1 ELSE errors
  /\ file_idx' = file_idx + 1
  /\ UNCHANGED <<pc, input_vars, gate_vars, processor_report, folds>>

\* generate_report, lines 59-64 and 75-76: with no file, or after the last
FinalizeReport ==
  /\ pc = "files"
  /\ file_idx = Len(sarif_files)
  /\ report' = _finalize_report(report)
  /\ pc' = "reported"
  /\ UNCHANGED <<file_idx, caught, errors, input_vars, gate_vars, processor_report, folds>>

\* security-quality-gates.py main, lines 210-267, over the same directory
QualityGateMain ==
  /\ pc = "reported"
  /\ LET gates == configure_gates(argv)
         all == collect_violations(gates, argv, sarif_files)
         counts == evaluate_sarif_results(gates, sarif_files).findings
     IN /\ quality_gates' = gates_after_evaluation(gates, counts)
        /\ findings' = counts
        /\ all_violations' = all
        /\ gate_report' = generate_quality_gate_report(counts, all)
        /\ exit_code' = exit_status(all)
  /\ pc' = "exited"
  /\ UNCHANGED <<input_vars, gen_vars, processor_report, folds>>

\* process-sarif.py main, lines 174-206, on one file of the directory
ProcessSarifMain ==
  /\ pc = "exited"
  /\ \E i \in DOMAIN sarif_files :
        processor_report' = processor_main(sarif_files[i])
  /\ pc' = "processed"
  /\ UNCHANGED <<input_vars, gen_vars, gate_vars, folds>>

Next == ProcessSarifFile \/ FinalizeReport \/ QualityGateMain \/ ProcessSarifMain

\* Two callers of _process_run on one generator.  `x += n` on a dict entry is
\* a read, an addition and a write, and another thread can run between the
\* read and the write.  The read and the write of the two counters of the
\* executive summary are steps of their own; the rest of the fold (lines
\* 106-135) is taken in one step, which leaves out interleavings the code
\* allows and adds none.
Fold(finding) == [finding |-> finding, at |-> "load_total", loaded |-> 0]

fold_level(t) == lower(get(folds[t].finding.level, "note"))

fold_vars == <<pc, file_idx, caught, errors, input_vars, gate_vars, processor_report>>

\* Line 91, the read of total_findings
LoadTotalFindings ==
  \E t \in DOMAIN folds :
    /\ pc = "files"
    /\ folds[t].at = "load_total"
    /\ folds' = [folds EXCEPT ![t].loaded = report.executive_summary.total_findings,
                              ![t].at = "store_total"]
    /\ UNCHANGED <<report, fold_vars>>

\* Line 91, the write of total_findings: len(results) is 1
StoreTotalFindings ==
  \E t \in DOMAIN folds :
    /\ pc = "files"
    /\ folds[t].at = "store_total"
    /\ report' = [report EXCEPT !.executive_summary.total_findings = folds[t].loaded + 1]
    /\ folds' = [folds EXCEPT ![t].at = IF is_critical_level(fold_level(t))
                                          THEN "load_critical" ELSE "map"]
    /\ UNCHANGED fold_vars

\* Lines 103-104, the read of critical_findings
LoadCriticalFindings ==
  \E t \in DOMAIN folds :
    /\ pc = "files"
    /\ folds[t].at = "load_critical"
    /\ folds' = [folds EXCEPT ![t].loaded = report.executive_summary.critical_findings,
                              ![t].at = "store_critical"]
    /\ UNCHANGED <<report, fold_vars>>

\* Line 104, the write of critical_findings
StoreCriticalFindings ==
  \E t \in DOMAIN folds :
    /\ pc = "files"
    /\ folds[t].at = "store_critical"
    /\ report' = [report EXCEPT !.executive_summary.critical_findings = folds[t].loaded + 1]
    /\ folds' = [folds EXCEPT ![t].at = "map"]
    /\ UNCHANGED fold_vars

\* Lines 106-135
MapFinding ==
  \E t \in DOMAIN folds :
    /\ pc = "files"
    /\ folds[t].at = "map"
    /\ report' = map_tracked(report, standards, get(folds[t].finding.ruleId, "unknown"),
                             fold_level(t), message_text(folds[t].finding), 0)
    /\ folds' = [folds EXCEPT ![t].at = "done"]
    /\ UNCHANGED fold_vars

\* _finalize_report once both folds have returned
FinalizeFolded ==
  /\ folds # <<>>
  /\ \A t \in DOMAIN folds : folds[t].at = "done"
  /\ FinalizeReport

NextConcurrent ==
  \/ LoadTotalFindings
  \/ StoreTotalFindings
  \/ LoadCriticalFindings
  \/ StoreCriticalFindings
  \/ MapFinding
  \/ FinalizeFolded


(***************************************************************************)
(* Specifications                                                          *)
(***************************************************************************)
MaxDirSize == 4

\* What --standards is given: the three known frameworks, one of them, one
\* with a name the script knows no patterns for, none
StandardsChoices ==
  {<<"ISO27001", "RBI-IT-Framework", "SEBI-Guidelines">>,
   <<"RBI-IT-Framework">>,
   <<"ISO27001", "PCI-DSS">>,
   <<>>}

\* A critical finding, a non-critical one that cites the same controls and
\* more, a result whose ruleId is not a string, a result that is no object
ReportResults ==
  {Result("sql-injection-detected", "error"),
   Result("sql-injection-auth-bypass", "warning"),
   Result(NonStr, "ERROR"),
   NotAnObject}

Init == InitWith(StandardsChoices, SarifDirs(ReportResults, MaxDirSize), {default_argv})

Spec == Init /\ [][Next]_vars


MaxFoldDirSize == 3

InitFold ==
  InitWith(StandardsChoices, SarifDirs(ReportResults, MaxFoldDirSize), {default_argv})

\* The generator and the gate over small directories, for the claims that
\* quantify over findings folded into every reachable report
SpecFold == InitFold /\ [][Next]_vars

MaxGateDirSize == 3

\* Findings the financial check knows in either letter case and with any
\* level, a critical finding, medium findings with and without a level, a
\* result that is no object, and a known finding whose message is not an
\* object
GateResults ==
  {Result("java/Payment-Data-Exposure", NonStr),
   Result("payment-data-exposure", "none"),
   Result("sql-injection-detected", "error"),
   Result("unused-variable", Absent),
   Result("unused-variable", "note"),
   NotAnObject,
   [Result("payment-data-exposure", "warning") EXCEPT !.message = NonDict]}

Score(n) == [kind |-> "num", value |-> n]

\* --compliance-file: not given, scores that warn, scores that fail before
\* one that cannot be compared
ComplianceFiles ==
  {NoComplianceFile,
   [exists |-> TRUE, readable |-> TRUE,
    frameworks |-> <<[framework |-> "iso27001", score |-> Score(70)],
                     [framework |-> "rbi", score |-> Score(90)],
                     [framework |-> "pci", score |-> Score(10)]>>],
   [exists |-> TRUE, readable |-> TRUE,
    frameworks |-> <<[framework |-> "sebi", score |-> [kind |-> "absent", value |-> 0]],
                     [framework |-> "rbi", score |-> [kind |-> "bad", value |-> 0]],
                     [framework |-> "iso27001", score |-> Score(0)]>>]}

GateArgvs ==
  [fail_on_critical : BOOLEAN, fail_on_high : BOOLEAN, max_medium : {0, 5},
   compliance_file : ComplianceFiles]

InitGate ==
  InitWith({<<"RBI-IT-Framework">>}, SarifDirs(GateResults, MaxGateDirSize), GateArgvs)

\* The same programs under every command line of the gate
SpecGate == InitGate /\ [][Next]_vars

MaxRiskDirSize == 7

RiskResults ==
  {Result("sql-injection-detected", "error"), Result("unused-variable", "warning")}

InitRisk ==
  InitWith({<<"RBI-IT-Framework">>}, SingleRunDirs(RiskResults, MaxRiskDirSize),
           {default_argv})

\* The same programs over directories long enough for more than five
\* critical findings
SpecRisk == InitRisk /\ [][Next]_vars

MaxClassifyDirSize == 4

\* --standards lists with the same frameworks in different orders
ClassifyStandards ==
  {<<"ISO27001", "RBI-IT-Framework">>,
   <<"RBI-IT-Framework", "ISO27001">>,
   <<"RBI-IT-Framework">>,
   <<"ISO27001", "RBI-IT-Framework", "SEBI-Guidelines">>,
   <<"SEBI-Guidelines", "RBI-IT-Framework", "ISO27001">>}

\* Rule ids that match one block, several blocks of a framework, or none
ClassifyResults ==
  {Result("sql-injection-detected", "critical"),
   Result("SQL-Injection-Detected", "error"),
   Result("sql-injection-auth-bypass", "warning"),
   Result("access-control-authentication", "error"),
   Result("data-integrity-policy", "note"),
   Result("unused-variable", "warning")}

InitClassify ==
  InitWith(ClassifyStandards, SingleRunDirs(ClassifyResults, MaxClassifyDirSize),
           {default_argv})

\* The same programs over rule ids chosen for the pattern tables
SpecClassify == InitClassify /\ [][Next]_vars

MaxFinancialDirSize == 3

\* Findings named after each rule of the financial check, after the
\* data-localization rule without its prefix, and after none
FinancialResults ==
  {Result("java/Payment-Data-Exposure", "warning"),
   Result("weak-transaction-encryption", "error"),
   Result("pii-exposure", "note"),
   Result("rbi-data-localization", "error"),
   Result("data-localization", "error"),
   Result("unused-variable", "warning"),
   NotAnObject}

InitFinancial ==
  InitWith({<<"RBI-IT-Framework">>}, SarifDirs(FinancialResults, MaxFinancialDirSize),
           {default_argv, [default_argv EXCEPT !.fail_on_critical = FALSE,
                                               !.fail_on_high = FALSE]})

\* The same programs over findings of the financial rules
SpecFinancial == InitFinancial /\ [][Next]_vars

(***************************************************************************)
(* Claims                                                                  *)
(***************************************************************************)
\* fold(state, finding): the finding is counted (line 91) and mapped (line 94)
fold(rep, stds, finding) == _process_run(rep, stds, <<finding>>, 0).report

\* What finalize reports: the per-framework statistics and the executive summary
Stats(rep) ==
  [compliance_mappings |-> rep.compliance_mappings,
   executive_summary |-> rep.executive_summary]

finalize_two(rep, stds, a, b) ==
  Stats(_finalize_report(fold(fold(rep, stds, a), stds, b)))

\* The findings folded in either order: with and without a ruleId, matching
\* one control, several or none, critical or not, with and without a level
FoldFindings ==
  <<Result("sql-injection-detected", "error"),
    Result("sql-injection-detected", "warning"),
    Result("sql-injection-auth-bypass", "ERROR"),
    Result("sql-injection-auth-bypass", Absent),
    Result("data-integrity-policy", "critical"),
    Result("unused-variable", "error"),
    Result(Absent, "warning")>>

\* C1: from every report the generator can hold while it reads files, folding
\* a then b and finalizing gives the same per-framework statistics and the
\* same executive summary as folding b then a and finalizing.
C1_FoldOrderIndependent ==
  pc = "files" =>
    \A i, j \in DOMAIN FoldFindings :
       i < j => finalize_two(report, standards, FoldFindings[i], FoldFindings[j])
                = finalize_two(report, standards, FoldFindings[j], FoldFindings[i])

\* A finalized report of a critical finding followed by a non-critical one
\* that cites the same control
C1_Witness ==
  /\ pc = "reported"
  /\ Len(report.detailed_findings) = 2
  /\ report.detailed_findings[1].severity = "error"
  /\ report.detailed_findings[2].severity = "warning"
  /\ "RBI-IT-Framework" \in DOMAIN report.compliance_mappings
  /\ LET by_control == report.compliance_mappings["RBI-IT-Framework"].findings_by_control
     IN /\ "RBI-IT-4.2.1" \in DOMAIN by_control
        /\ by_control["RBI-IT-4.2.1"].total_findings = 2
        /\ by_control["RBI-IT-4.2.1"].critical_findings = 1


\* What the gate decided
status == gate_report.quality_gate_status

any_fail_build(all) == \E i \in DOMAIN all : all[i].fail_build

\* C2: the decision is FAIL iff some violation has fail_build, otherwise
\* WARNING (the spec's WARN) iff there is a violation, otherwise PASS.
C2_DecisionRule ==
  pc = "exited" =>
    /\ status \in {"FAIL", "WARNING", "PASS"}
    /\ status = "FAIL" <=> any_fail_build(all_violations)
    /\ status = "WARNING" <=> (~any_fail_build(all_violations) /\ all_violations # <<>>)
    /\ status = "PASS" <=> all_violations = <<>>

\* The gate warned: violations, none of them failing the build
C2_Witness ==
  /\ pc = "exited"
  /\ status = "WARNING"
  /\ Len(all_violations) >= 2

\* The results of a file in reading order, over all its runs
RECURSIVE results_of(_, _)
results_of(runs, r) ==
  IF r > Len(runs) THEN <<>> ELSE runs[r] \o results_of(runs, r + 1)

\* The financial check raises on this result
raises_in_financial_check(result) ==
  \/ ~result.is_dict
  \/ result.ruleId = NonStr
  \/ /\ result.message = NonDict
     /\ \E k \in DOMAIN critical_rules :
           StrIn(critical_rules[k], lower(get(result.ruleId, "")))

\* Some file holds a finding whose rule_id contains the keyword in any letter
\* case, and the financial check reads the file without error up to it
finding_read_with(keyword) ==
  \E f \in DOMAIN sarif_files :
     /\ sarif_files[f].readable
     /\ LET results == results_of(sarif_files[f].runs, 1)
        IN \E i \in DOMAIN results :
              /\ \A j \in 1..i : ~raises_in_financial_check(results[j])
              /\ StrIn(keyword, lower(get(results[i].ruleId, "")))

\* C3: a finding whose rule_id contains "payment-data-exposure" yields a
\* financial violation with fail_build and the decision FAIL, whatever the
\* finding's level and whatever the command line made of the policy tables.
C3_PaymentDataExposureFails ==
  (pc = "exited" /\ finding_read_with("payment-data-exposure")) =>
    /\ \E i \in DOMAIN all_violations :
          /\ all_violations[i].type = "financial_security_violation"
          /\ all_violations[i].fail_build
    /\ status = "FAIL"
    /\ exit_code # 0

\* With fail_build off for critical and high, a payment-data-exposure finding
\* that is not of level error is the only reason the build fails
C3_Witness ==
  /\ pc = "exited"
  /\ ~argv.fail_on_critical /\ ~argv.fail_on_high
  /\ ~quality_gates.critical.fail_build /\ ~quality_gates.high.fail_build
  /\ ~argv.compliance_file.exists
  /\ finding_read_with("payment-data-exposure")
  /\ Len(all_violations) = 1
  /\ all_violations[1].type = "financial_security_violation"
  /\ \A i \in DOMAIN all_violations[1].violations :
        all_violations[1].violations[i].level # "error"
  /\ status = "FAIL"

\* C4: the gate exits with 0 on PASS and on WARNING, and with a non-zero
\* code on FAIL.
C4_ExitCode ==
  pc = "exited" =>
    /\ status \in {"PASS", "WARNING"} => exit_code = 0
    /\ status = "FAIL" => exit_code # 0 /\ exit_code # -1

\* The gate warned about a compliance score and still left with 0
C4_Witness ==
  /\ pc = "exited"
  /\ status = "WARNING"
  /\ exit_code = 0
  /\ \E i \in DOMAIN all_violations : all_violations[i].type = "compliance_score"


\* C5: once finalized, every framework's compliance_percentage is within
\* [0, 100] and its failed_controls at most its total_controls, and a
\* framework no finding cited stands at 100.
C5_PercentageRange ==
  pc # "files" =>
    \A f \in DOMAIN report.compliance_mappings :
       LET data == report.compliance_mappings[f]
       IN /\ RatLeq(Rat(0, 1), data.compliance_percentage)
          /\ RatLeq(data.compliance_percentage, Rat(100, 1))
          /\ data.failed_controls <= data.total_controls
          /\ DOMAIN data.findings_by_control = {}
               => data.compliance_percentage = Rat(100, 1)

\* A finalized framework with one of its two cited controls failed: 50 percent
C5_Witness ==
  /\ pc = "reported"
  /\ \E f \in DOMAIN report.compliance_mappings :
        /\ report.compliance_mappings[f].failed_controls = 1
        /\ report.compliance_mappings[f].total_controls = 2
        /\ report.compliance_mappings[f].compliance_percentage = Rat(50, 1)

\* The detailed findings of critical severity
critical_folded(rep) ==
  Cardinality({i \in DOMAIN rep.detailed_findings :
                 is_critical_level(rep.detailed_findings[i].severity)})

\* C6: once finalized, risk_level is HIGH iff critical_findings > 5, MEDIUM
\* iff 0 < critical_findings <= 5 and LOW iff critical_findings = 0; the
\* counter counts every folded finding of critical severity, and nothing
\* else when no file raised.
C6_RiskLevel ==
  pc # "files" =>
    LET summary == report.executive_summary
    IN /\ summary.risk_level = "HIGH" <=> summary.critical_findings > 5
       /\ summary.risk_level = "MEDIUM" <=>
            (0 < summary.critical_findings /\ summary.critical_findings <= 5)
       /\ summary.risk_level = "LOW" <=> summary.critical_findings = 0
       /\ critical_folded(report) <= summary.critical_findings
       /\ errors = 0 => summary.critical_findings = critical_folded(report)

\* Six critical findings were folded and the report says HIGH
C6_Witness ==
  /\ pc = "reported"
  /\ report.executive_summary.critical_findings = 6
  /\ critical_folded(report) = 6
  /\ report.executive_summary.risk_level = "HIGH"

\* C7: when every result file raised (or there is none), the executive
\* summary is 0 findings, 0 critical, score 100 and LOW, and the gate passes.
C7_AllFilesFailed ==
  (pc = "exited" /\ errors = Len(sarif_files)) =>
    /\ report.executive_summary =
         [total_findings |-> 0, critical_findings |-> 0,
          compliance_score |-> Rat(100, 1), risk_level |-> "LOW"]
    /\ status = "PASS"

\* The gate's counting raises on this file
raises_in_gate_count(file) ==
  \/ ~file.readable
  \/ \E i \in DOMAIN results_of(file.runs, 1) : ~results_of(file.runs, 1)[i].is_dict

\* C8: a file whose processing raises, wherever it raises, contributes
\* nothing: the generator's report is as it was before the file, and the
\* gate's severity counts are those of the files that did not raise.
C8_FailedFileContributesNothing ==
  /\ [][(file_idx' = file_idx + 1 /\ caught') => report' = report]_vars
  /\ [](pc = "exited" =>
          findings = evaluate_sarif_results(
                       quality_gates,
                       SelectSeq(sarif_files, LAMBDA f : ~raises_in_gate_count(f))).findings)

\* C9: finalizing a finalized report again changes nothing in it.
C9_FinalizeIdempotent ==
  pc # "files" => _finalize_report(report) = report

\* A finalized report with a failed control and a MEDIUM risk
C9_Witness ==
  /\ pc = "reported"
  /\ report.executive_summary.risk_level = "MEDIUM"
  /\ \E f \in DOMAIN report.compliance_mappings :
        /\ report.compliance_mappings[f].failed_controls >= 1
        /\ report.compliance_mappings[f].total_controls >= 2

\* C10: every citation of every finding names a requested framework, and
\* statistics exist only for requested frameworks.
C10_OnlyRequestedFrameworks ==
  /\ \A i \in DOMAIN report.detailed_findings :
        \A k \in DOMAIN report.detailed_findings[i].compliance_mappings :
           InList(report.detailed_findings[i].compliance_mappings[k].framework, standards)
  /\ \A f \in DOMAIN report.compliance_mappings : InList(f, standards)

\* Only RBI was requested and a finding the ISO 27001 patterns match as well
\* was folded: it cites RBI controls alone
C10_Witness ==
  /\ standards = <<"RBI-IT-Framework">>
  /\ \E i \in DOMAIN report.detailed_findings :
        /\ _map_to_iso27001(report.detailed_findings[i].rule_id, "error") # <<>>
        /\ Len(report.detailed_findings[i].compliance_mappings) >= 1
  /\ DOMAIN report.compliance_mappings = {"RBI-IT-Framework"}

\* The (framework, control) pairs a finding cites, in order
cited_controls(finding) ==
  [k \in DOMAIN finding.compliance_mappings |->
     <<finding.compliance_mappings[k].framework, finding.compliance_mappings[k].control>>]

\* The rule id holds sql-injection in some letter case and the requested
\* frameworks are ISO27001 and RBI
is_sql_injection_under_iso_rbi(finding) ==
  /\ Range(standards) = {"ISO27001", "RBI-IT-Framework"}
  /\ finding.rule_id \in DOMAIN Spell
  /\ Contains(Spell["sql-injection"], Spell[lower_table[finding.rule_id]])

\* The rule id holds a keyword of a block other than the first of the ISO27001
\* or RBI table
matches_other_block(rule_id) ==
  \/ \E k \in 2..Len(iso27001_patterns) :
        any_term_in(iso27001_patterns[k].terms, lower_table[rule_id])
  \/ \E k \in 2..Len(rbi_patterns) :
        any_term_in(rbi_patterns[k].terms, lower_table[rule_id])

patterns_of(framework) ==
  CASE framework = "ISO27001" -> iso27001_patterns
    [] framework = "RBI-IT-Framework" -> rbi_patterns
    [] framework = "SEBI-Guidelines" -> sebi_patterns
    [] OTHER -> <<>>

\* Some keyword of the entry is contained in the lowercased rule id
entry_matches(terms, rule_id) ==
  \E k \in DOMAIN terms : Contains(Spell[terms[k]], Spell[lower_table[rule_id]])

\* The generator cites, for each requested framework, the control of every
\* entry that matches, once
generator_cites_all_matches ==
  \A i \in DOMAIN report.detailed_findings :
     \A f \in Range(standards) :
        \A k \in DOMAIN patterns_of(f) :
           LET finding == report.detailed_findings[i]
               cited == {c \in DOMAIN finding.compliance_mappings :
                           finding.compliance_mappings[c] =
                             Mapping(f, patterns_of(f)[k].control,
                                     patterns_of(f)[k].description, finding.severity)}
           IN Cardinality(cited) =
                IF entry_matches(patterns_of(f)[k].terms, finding.rule_id) THEN 1 ELSE 0

\* The processor's tables by framework key
processor_tables ==
  [rbi |-> rbi_mappings, iso27001 |-> iso27001_mappings, sebi |-> sebi_mappings]

\* The processor's result carries the control of every entry that matches
processor_cites_all_matches ==
  \A i \in DOMAIN processor_report.detailed_results :
     \A f \in DOMAIN processor_tables :
        \A k \in DOMAIN processor_tables[f] :
           LET result == processor_report.detailed_results[i]
           IN entry_matches(<<processor_tables[f][k].pattern>>, result.rule_id)
                => result.compliance_mappings[f].control = processor_tables[f][k].mapping

\* C12: within one framework every pattern-table entry with a keyword in the
\* lowercased rule id gives a citation, all of them and not only the first,
\* in the generator's classification and in the processor's.
C12_AllMatchingEntriesCited ==
  generator_cites_all_matches /\ processor_cites_all_matches

\* The security_finding violations of a severity among all_violations
security_violations_of(severity) ==
  SelectSeq(all_violations,
            LAMBDA v : v.type = "security_finding" /\ v.severity = severity)

\* C13: for each severity of the policy there is exactly one security_finding
\* violation when the count is above max_allowed and none otherwise, its
\* fail_build being the policy's; one critical finding against the default
\* policy gives exactly one such violation and FAIL.
C13_SeverityViolations ==
  pc = "exited" =>
    /\ \A s \in DOMAIN quality_gates :
          /\ Len(security_violations_of(s)) =
               IF findings[s] > quality_gates[s].max_allowed THEN 1 ELSE 0
          /\ \A k \in DOMAIN security_violations_of(s) :
                security_violations_of(s)[k].fail_build = quality_gates[s].fail_build
    /\ (/\ findings = [critical |-> 1, high |-> 0, medium |-> 0, low |-> 0]
        /\ quality_gates.critical.max_allowed = 0
        /\ quality_gates.critical.fail_build)
         => /\ Len(SelectSeq(all_violations, LAMBDA v : v.type = "security_finding")) = 1
            /\ status = "FAIL"

\* One critical finding and nothing else: the single violation, and FAIL
C13_Witness ==
  /\ pc = "exited"
  /\ findings = [critical |-> 1, high |-> 0, medium |-> 0, low |-> 0]
  /\ Len(all_violations) = 1
  /\ all_violations[1].type = "security_finding"
  /\ all_violations[1].fail_build
  /\ status = "FAIL"

\* The compliance_score violations of a framework among all_violations
score_violations_of(framework) ==
  SelectSeq(all_violations,
            LAMBDA v : v.type = "compliance_score" /\ v.framework = framework)

\* The score the evaluator observes for an entry of the compliance file
observed_score(entry) ==
  IF entry.score.kind = "absent" THEN 0 ELSE entry.score.value

\* The evaluation gets to entry i of the file and compares its score
score_evaluated(i) ==
  /\ argv.compliance_file.exists
  /\ argv.compliance_file.readable
  /\ i \in DOMAIN argv.compliance_file.frameworks
  /\ \A j \in 1..i : argv.compliance_file.frameworks[j].score.kind # "bad"

\* C14: for each framework of the compliance policy whose score the evaluator
\* compares, there is a compliance_score violation iff the score is strictly
\* below the policy's min_score, and its fail_build is the policy's.
C14_ScoreViolations ==
  pc = "exited" =>
    \A i \in DOMAIN argv.compliance_file.frameworks :
       LET entry == argv.compliance_file.frameworks[i]
       IN (score_evaluated(i) /\ entry.framework \in DOMAIN compliance_gates) =>
            /\ Len(score_violations_of(entry.framework)) =
                 IF observed_score(entry) < compliance_gates[entry.framework].min_score
                   THEN 1 ELSE 0
            /\ \A k \in DOMAIN score_violations_of(entry.framework) :
                  score_violations_of(entry.framework)[k].fail_build =
                    compliance_gates[entry.framework].fail_build

\* ISO 27001 scored 70 against 80 warns, RBI at its minimum of 90 does not
C14_Witness ==
  /\ pc = "exited"
  /\ score_evaluated(2)
  /\ Len(score_violations_of("iso27001")) = 1
  /\ ~score_violations_of("iso27001")[1].fail_build
  /\ observed_score(argv.compliance_file.frameworks[2]) = compliance_gates.rbi.min_score
  /\ Len(score_violations_of("rbi")) = 0

\* The financial violations among all_violations
financial_violations ==
  SelectSeq(all_violations, LAMBDA v : v.type = "financial_security_violation")

\* There is exactly one financial violation, failing the build, when the
\* check read a finding holding one of the keywords, and none otherwise
one_violation_iff_read(keywords) ==
  IF \E k \in keywords : finding_read_with(k)
    THEN Len(financial_violations) = 1 /\ financial_violations[1].fail_build
    ELSE Len(financial_violations) = 0

\* C15 as stated: one aggregated fail_build violation when some finding holds
\* payment-data-exposure, weak-transaction-encryption, pii-exposure or
\* data-localization, none otherwise.
C15_FinancialKeywordsAsStated ==
  pc = "exited" =>
    one_violation_iff_read({"payment-data-exposure", "weak-transaction-encryption",
                            "pii-exposure", "data-localization"})

\* C15, amended: the fourth keyword is rbi-data-localization; one aggregated
\* fail_build violation when some finding read holds one of the four, none
\* otherwise, however many findings match.
C15_FinancialViolationAggregated ==
  pc = "exited" =>
    one_violation_iff_read({"payment-data-exposure", "weak-transaction-encryption",
                            "pii-exposure", "rbi-data-localization"})

\* Two findings matched and went into the one violation
C15_Witness ==
  /\ pc = "exited"
  /\ finding_read_with("rbi-data-localization")
  /\ Len(financial_violations) = 1
  /\ Len(financial_violations[1].violations) = 2
  /\ financial_violations[1].fail_build

\* --standards names a framework no mapper exists for
unknown_standard ==
  \E i \in DOMAIN standards :
     standards[i] \notin {"ISO27001", "RBI-IT-Framework", "SEBI-Guidelines"}

\* The compliance file scores a framework compliance_gates does not hold
unknown_score_framework ==
  /\ argv.compliance_file.exists
  /\ \E i \in DOMAIN argv.compliance_file.frameworks :
        argv.compliance_file.frameworks[i].framework \notin DOMAIN compliance_gates

\* C16: with an unknown framework among the requested standards no file is
\* folded and no report finalized, and with one among the scored frameworks
\* the gate evaluates nothing.
C16_UnknownFrameworkRejected ==
  /\ unknown_standard => (pc = "files" /\ file_idx = 0)
  /\ unknown_score_framework => pc \in {"files", "reported"}

\* The controls of a framework cited by the folded findings of the severities
controls_cited(framework, severities) ==
  UNION {{m.control : m \in {c \in Range(finding.compliance_mappings) :
                               c.framework = framework}} :
           finding \in {x \in Range(report.detailed_findings) :
                          x.severity \in severities}}

\* The severities of the folded findings
folded_severities ==
  {report.detailed_findings[i].severity : i \in DOMAIN report.detailed_findings}

\* C17: once finalized, failed_controls is the number of distinct controls
\* cited by a critical finding, total_controls is max(1, distinct controls
\* cited) and compliance_percentage is max(0, 100 - failed/total * 100); one
\* critical sql-injection-detected finding under RBI alone cites RBI-IT-4.2.1
\* and gives failed 1, total 1 and 0 percent.
C17_FinalizedStatistics ==
  pc # "files" =>
    /\ \A f \in DOMAIN report.compliance_mappings :
          LET data == report.compliance_mappings[f]
              cited == Cardinality(controls_cited(f, folded_severities))
              failed == Cardinality(controls_cited(f, {"error", "critical"}))
          IN /\ data.failed_controls = failed
             /\ data.total_controls = IF cited > 1 THEN cited ELSE 1
             /\ data.compliance_percentage =
                  RatMax(Rat(0, 1),
                         Rat(100 * data.total_controls - 100 * failed,
                             data.total_controls))
    /\ (/\ standards = <<"RBI-IT-Framework">>
        /\ Len(report.detailed_findings) = 1
        /\ report.detailed_findings[1].rule_id = "sql-injection-detected"
        /\ report.detailed_findings[1].severity = "critical")
         => /\ cited_controls(report.detailed_findings[1])
                 = <<<<"RBI-IT-Framework", "RBI-IT-4.2.1">>>>
            /\ report.compliance_mappings["RBI-IT-Framework"].failed_controls = 1
            /\ report.compliance_mappings["RBI-IT-Framework"].total_controls = 1
            /\ report.compliance_mappings["RBI-IT-Framework"].compliance_percentage
                 = Rat(0, 1)

\* The one critical sql-injection-detected finding under RBI alone, finalized
C17_Witness ==
  /\ pc = "reported"
  /\ standards = <<"RBI-IT-Framework">>
  /\ Len(report.detailed_findings) = 1
  /\ report.detailed_findings[1].rule_id = "sql-injection-detected"
  /\ report.detailed_findings[1].severity = "critical"
  /\ report.compliance_mappings["RBI-IT-Framework"].compliance_percentage = Rat(0, 1)

\* C18: once finalized, compliance_score is the arithmetic mean of the
\* compliance_percentage of the configured frameworks (their sum is the
\* score times their number), and 100 when none is configured.
C18_ComplianceScoreIsMean ==
  pc # "files" =>
    LET frameworks == DOMAIN report.compliance_mappings
        score == report.executive_summary.compliance_score
    IN IF frameworks = {}
         THEN score = Rat(100, 1)
         ELSE RatSum([f \in frameworks |->
                        report.compliance_mappings[f].compliance_percentage], frameworks)
                = Rat(score[1] * Cardinality(frameworks), score[2])

\* Three frameworks with different percentages and a score between them
C18_Witness ==
  /\ pc = "reported"
  /\ Cardinality(DOMAIN report.compliance_mappings) = 3
  /\ report.compliance_mappings["ISO27001"].compliance_percentage = Rat(50, 1)
  /\ report.compliance_mappings["SEBI-Guidelines"].compliance_percentage = Rat(100, 1)
  /\ ~RatLeq(report.executive_summary.compliance_score, Rat(50, 1))
  /\ ~RatLeq(Rat(100, 1), report.executive_summary.compliance_score)

\* A result the generator reads without error whose rule id holds no keyword
\* of any requested framework's table
unmatched(result) ==
  /\ result.is_dict
  /\ result.ruleId # NonStr /\ result.level # NonStr /\ result.message # NonDict
  /\ \A f \in Range(standards) :
        \A k \in DOMAIN patterns_of(f) :
           ~entry_matches(patterns_of(f)[k].terms, get(result.ruleId, "unknown"))

\* The file is read and every result of it is unmatched
unmatched_file(file) ==
  /\ file.readable
  /\ flatten_runs(file.runs, 1) # <<>>
  /\ \A i \in DOMAIN flatten_runs(file.runs, 1) : unmatched(flatten_runs(file.runs, 1)[i])

\* C19: folding findings that match no pattern of a requested framework
\* raises nothing, appends each with an empty citation list, adds one to
\* total_findings for each, and leaves every framework's statistics as they
\* were.
C19_UnmatchedFindingCounted ==
  [][(pc = "files" /\ file_idx' = file_idx + 1
        /\ unmatched_file(sarif_files[file_idx + 1]))
       => LET n == Len(flatten_runs(sarif_files[file_idx + 1].runs, 1))
              before == Len(report.detailed_findings)
          IN /\ ~caught' /\ errors' = errors
             /\ report'.executive_summary.total_findings
                  = report.executive_summary.total_findings + n
             /\ Len(report'.detailed_findings) = before + n
             /\ SubSeq(report'.detailed_findings, 1, before) = report.detailed_findings
             /\ \A i \in (before + 1)..(before + n) :
                   report'.detailed_findings[i].compliance_mappings = <<>>
             /\ report'.compliance_mappings = report.compliance_mappings]_vars

\* An unmatched finding was folded after one that cites a control
C19_Witness ==
  /\ file_idx = 2
  /\ unmatched_file(sarif_files[2])
  /\ Len(report.detailed_findings) = 2
  /\ report.detailed_findings[1].compliance_mappings # <<>>
  /\ report.detailed_findings[2].compliance_mappings = <<>>
  /\ report.executive_summary.total_findings = 2

\* The citations of one framework in the order of its pattern table, from
\* entry k on
RECURSIVE table_citations(_, _, _, _)
table_citations(framework, rule_id, severity, k) ==
  IF k > Len(patterns_of(framework)) THEN <<>>
  ELSE (IF entry_matches(patterns_of(framework)[k].terms, rule_id)
          THEN <<Mapping(framework, patterns_of(framework)[k].control,
                         patterns_of(framework)[k].description, severity)>>
          ELSE <<>>)
       \o table_citations(framework, rule_id, severity, k + 1)

\* The citations as a function of the rule id, the severity and the set of
\* requested frameworks alone: ISO27001, then RBI, then SEBI
citations_by_table(rule_id, severity, requested) ==
  (IF "ISO27001" \in requested
     THEN table_citations("ISO27001", rule_id, severity, 1) ELSE <<>>)
  \o (IF "RBI-IT-Framework" \in requested
        THEN table_citations("RBI-IT-Framework", rule_id, severity, 1) ELSE <<>>)
  \o (IF "SEBI-Guidelines" \in requested
        THEN table_citations("SEBI-Guidelines", rule_id, severity, 1) ELSE <<>>)

\* C20: the citations of a finding are a function of its rule id, its
\* severity and the set of requested frameworks, in the order of the pattern
\* tables, whatever the order of the requested frameworks and whatever was
\* classified before.
C20_ClassificationDeterministic ==
  \A i \in DOMAIN report.detailed_findings :
     report.detailed_findings[i].rule_id \in DOMAIN Spell =>
       report.detailed_findings[i].compliance_mappings =
         citations_by_table(report.detailed_findings[i].rule_id,
                            report.detailed_findings[i].severity, Range(standards))

\* With SEBI, RBI, ISO27001 requested in that order, a finding folded after
\* another one cites ISO27001 controls first, then RBI controls
C20_Witness ==
  /\ standards = <<"SEBI-Guidelines", "RBI-IT-Framework", "ISO27001">>
  /\ Len(report.detailed_findings) = 2
  /\ report.detailed_findings[2].rule_id = "sql-injection-auth-bypass"
  /\ cited_controls(report.detailed_findings[2]) =
       <<<<"ISO27001", "A.12.6.1">>, <<"ISO27001", "A.9.1.1">>,
         <<"RBI-IT-Framework", "RBI-IT-4.2.1">>, <<"RBI-IT-Framework", "RBI-IT-4.1.3">>>>

\* The place of a kind of violation in the combined list
violation_rank(v) ==
  CASE v.type = "security_finding" -> 1
    [] v.type = "compliance_score" -> 2
    [] v.type = "financial_security_violation" -> 3

\* C21: in all_violations every severity violation comes before every
\* framework-score violation and every framework-score violation before the
\* financial-rule violation.
C21_ViolationOrder ==
  pc = "exited" =>
    \A i \in DOMAIN all_violations :
       \A j \in DOMAIN all_violations :
          i < j => violation_rank(all_violations[i]) <= violation_rank(all_violations[j])

\* A list holding the three kinds
C21_Witness ==
  /\ pc = "exited"
  /\ \E i \in DOMAIN all_violations : all_violations[i].type = "security_finding"
  /\ \E i \in DOMAIN all_violations : all_violations[i].type = "compliance_score"
  /\ all_violations[Len(all_violations)].type = "financial_security_violation"

InitConcurrent ==
  /\ InitState(StandardsChoices, {<<>>}, {default_argv})
  /\ \E i, j \in DOMAIN FoldFindings :
        /\ FoldFindings[i] # FoldFindings[j]
        /\ folds = <<Fold(FoldFindings[i]), Fold(FoldFindings[j])>>

SpecConcurrent == InitConcurrent /\ [][NextConcurrent]_vars

\* C23: when two folds of different findings run concurrently against one
\* report, with the reads and writes of the counters interleaved in any way,
\* the finalized statistics are those of running the two folds one after the
\* other.
C23_ConcurrentFoldsAsSequential ==
  (pc = "reported" /\ folds # <<>>) =>
    Stats(report) = finalize_two(initial_report(standards), standards,
                                 folds[1].finding, folds[2].finding)

\* C24: no fold changes risk_level: while files are folded it keeps the value
\* the constructor gave it; the one step that assigns it is finalize, which
\* derives it from the critical_findings counted over everything folded up to
\* then; nothing changes it afterwards.
C24_RiskLevelOnlyAtFinalize ==
  [][LET before == report.executive_summary
         after == report'.executive_summary
     IN /\ (pc = "files" /\ pc' = "files") =>
             /\ after.risk_level = before.risk_level
             /\ after.risk_level = initial_report(standards).executive_summary.risk_level
        /\ (pc = "files" /\ pc' = "reported") =>
             /\ after.critical_findings = before.critical_findings
             /\ after.risk_level = risk_level_of(before.critical_findings)
             /\ errors = 0 => before.critical_findings = critical_folded(report)
        /\ pc # "files" => after.risk_level = before.risk_level]_vars

\* Six critical findings are folded and not finalized: risk_level is still LOW
C24_Witness ==
  /\ pc = "files"
  /\ file_idx > 0
  /\ report.executive_summary.critical_findings = 6
  /\ report.executive_summary.risk_level = "LOW"

MaxDefaultsDirSize == 3

\* A result with every field missing, a finding of the financial check with
\* no level and a message without text, a result with every field present
DefaultsResults ==
  {Result(Absent, Absent),
   [Result("payment-data-exposure", Absent) EXCEPT !.message = NoText],
   [Result("sql-injection-detected", "error") EXCEPT !.message = "SQL injection"]}

InitDefaults ==
  InitWith({<<"RBI-IT-Framework">>, <<>>},
           SarifDirs(DefaultsResults, MaxDefaultsDirSize), {default_argv})

\* The same programs over results with missing fields
SpecDefaults == InitDefaults /\ [][Next]_vars

\* The results of the readable files among the first n, in reading order
RECURSIVE results_read(_, _)
results_read(files, n) ==
  IF n = 0 THEN <<>>
  ELSE results_read(files, n - 1)
         \o (IF files[n].readable THEN results_of(files[n].runs, 1) ELSE <<>>)

\* What was extracted from the result holds the stated placeholder for each
\* missing field, and the rule id of the result when it has one
placeholders_as_stated(result, rule_id, level, message) ==
  /\ result.ruleId = Absent => rule_id = "unknown"
  /\ result.ruleId # Absent => rule_id = result.ruleId
  /\ result.level = Absent => level = "note"
  /\ result.message \in {Absent, NoText} => message = ""

\* generate-compliance-report.py: the detailed findings against the results read
generator_defaults_as_stated ==
  LET read == results_read(sarif_files, file_idx)
  IN /\ Len(report.detailed_findings) = Len(read)
     /\ \A i \in DOMAIN read :
           placeholders_as_stated(read[i], report.detailed_findings[i].rule_id,
                                  report.detailed_findings[i].severity,
                                  report.detailed_findings[i].message)

\* security-quality-gates.py: every recorded financial match against the
\* result it was read from
gate_defaults_as_stated ==
  \A v \in DOMAIN all_violations :
     all_violations[v].type = "financial_security_violation" =>
       \A k \in DOMAIN all_violations[v].violations :
          LET entry == all_violations[v].violations[k]
          IN \E r \in Range(results_read(sarif_files, Len(sarif_files))) :
                placeholders_as_stated(r, entry.rule_id, entry.level, entry.message)

\* process-sarif.py: the detailed results against the results of the file
processor_defaults_as_stated ==
  \E f \in DOMAIN sarif_files :
     LET read == results_read(<<sarif_files[f]>>, 1)
         detailed == processor_report.detailed_results
     IN /\ Len(detailed) = Len(read)
        /\ \A k \in DOMAIN read :
              placeholders_as_stated(read[k], detailed[k].rule_id, detailed[k].level,
                                     detailed[k].message)

\* C25: wherever a result is extracted, a missing ruleId is read as "unknown",
\* a missing level as "note" and a missing message text as the empty string:
\* in the generator's detailed findings, in the gate's financial matches and
\* in the processor's detailed results.
C25_MissingFieldDefaults ==
  /\ generator_defaults_as_stated
  /\ pc \in {"exited", "processed"} => gate_defaults_as_stated
  /\ pc = "processed" => processor_defaults_as_stated

\* C26: whatever was folded, and finalized or not, critical_findings of the
\* executive summary is at most total_findings, there are at most
\* total_findings detailed finding records, and every per-control entry has
\* total_findings >= 1 and critical_findings <= total_findings.
C26_CounterBounds ==
  /\ report.executive_summary.critical_findings
       <= report.executive_summary.total_findings
  /\ Len(report.detailed_findings) <= report.executive_summary.total_findings
  /\ \A f \in DOMAIN report.compliance_mappings :
        LET by_control == report.compliance_mappings[f].findings_by_control
        IN \A c \in DOMAIN by_control :
              /\ by_control[c].total_findings >= 1
              /\ by_control[c].critical_findings <= by_control[c].total_findings

\* A finalized report of a file that raised on its second result: both
\* results are counted and critical, one has a record, and a control was
\* cited by critical findings only
C26_Witness ==
  /\ pc = "reported"
  /\ errors > 0
  /\ report.executive_summary.total_findings = 2
  /\ report.executive_summary.critical_findings = 2
  /\ Len(report.detailed_findings) = 1
  /\ \E f \in DOMAIN report.compliance_mappings :
        \E c \in DOMAIN report.compliance_mappings[f].findings_by_control :
           LET entry == report.compliance_mappings[f].findings_by_control[c]
           IN entry.total_findings = 1 /\ entry.critical_findings = 1

\* C27: the build_decision written to the gate's report is FAIL exactly when
\* the process exits non-zero, and a report whose status is WARNING has the
\* decision PASS and the exit code 0.
C27_DecisionMatchesExit ==
  pc \in {"exited", "processed"} =>
    /\ gate_report.build_decision \in {"PASS", "FAIL"}
    /\ gate_report.violations = all_violations
    /\ gate_report.build_decision = "FAIL" <=> exit_code # 0
    /\ gate_report.quality_gate_status = "WARNING" =>
         gate_report.build_decision = "PASS" /\ exit_code = 0

\* Critical findings with --fail-on-critical off: the report warns, decides
\* PASS, and the gate leaves with 0
C27_Witness ==
  /\ pc = "exited"
  /\ gate_report.quality_gate_status = "WARNING"
  /\ gate_report.build_decision = "PASS"
  /\ exit_code = 0
  /\ \E i \in DOMAIN all_violations :
        /\ all_violations[i].type = "security_finding"
        /\ all_violations[i].severity = "critical"
        /\ ~all_violations[i].fail_build

\* C28: over a directory of one result file, which the three scripts read
\* alike, the generator's critical_findings, the gate's findings['critical']
\* and the processor's by_severity critical count are the same number.
C28_ConsumersAgreeOnCritical ==
  (pc = "processed" /\ Len(sarif_files) = 1) =>
    /\ report.executive_summary.critical_findings = findings.critical
    /\ findings.critical = processor_report.summary.by_severity.critical

\* The results the processor summarized that have the level
results_with_level(level) ==
  Cardinality({k \in DOMAIN processor_report.detailed_results :
                 processor_report.detailed_results[k].level = level})

\* C29: the processor's compliance_status is CRITICAL iff some result has
\* level error; otherwise HIGH_RISK iff more than 5 results have level
\* warning; otherwise MEDIUM_RISK iff some result has level warning;
\* otherwise PASS; and the processor exits with 1 exactly on CRITICAL.
C29_ProcessorStatus ==
  pc = "processed" =>
    LET compliance_status == processor_report.summary.compliance_status
        error_results == results_with_level("error")
        warning_results == results_with_level("warning")
    IN /\ compliance_status = "CRITICAL" <=> error_results >= 1
       /\ compliance_status = "HIGH_RISK" <=> (error_results = 0 /\ warning_results > 5)
       /\ compliance_status = "MEDIUM_RISK" <=>
            (error_results = 0 /\ 1 <= warning_results /\ warning_results <= 5)
       /\ compliance_status = "PASS" <=> (error_results = 0 /\ warning_results = 0)
       /\ processor_report.exit_code = 1 <=> compliance_status = "CRITICAL"
       /\ processor_report.exit_code \in {0, 1}

\* The processor summarized a file of six warnings and no error
C29_Witness ==
  /\ pc = "processed"
  /\ results_with_level("warning") = 6
  /\ results_with_level("error") = 0
  /\ processor_report.summary.compliance_status = "HIGH_RISK"
  /\ processor_report.exit_code = 0

\* The bucket the statement gives a result
bucket_as_stated(level) ==
  CASE level = "error" -> "critical"
    [] level = "warning" -> "high"
    [] level \in {"note", Absent} -> "medium"
    [] OTHER -> "low"

\* The results of a file the gate's loop gets through: all of them, or those
\* before the result it raises on
results_before_raise(results) ==
  IF \A i \in DOMAIN results : results[i].is_dict THEN results
  ELSE SubSeq(results, 1,
              (CHOOSE i \in DOMAIN results :
                 /\ ~results[i].is_dict
                 /\ \A j \in 1..(i - 1) : results[j].is_dict) - 1)

\* The results the gate read in the first n files
RECURSIVE gate_results_read(_, _)
gate_results_read(files, n) ==
  IF n = 0 THEN <<>>
  ELSE gate_results_read(files, n - 1)
         \o (IF files[n].readable
               THEN results_before_raise(results_of(files[n].runs, 1)) ELSE <<>>)

\* C30: once the gate has counted, every result it read, which is every
\* result of every file it read without an error, is in exactly one bucket:
\* error in critical, warning in high, note or no level in medium, anything
\* else in low; the four counts sum to the number of results read.  The same
\* holds of the processor's by_severity and its total_findings.
C30_EveryResultInOneBucket ==
  /\ pc \in {"exited", "processed"} =>
       LET read == gate_results_read(sarif_files, Len(sarif_files))
       IN /\ \A s \in Range(Severities) :
                findings[s] = Cardinality({i \in DOMAIN read :
                                             bucket_as_stated(read[i].level) = s})
          /\ findings.critical + findings.high + findings.medium + findings.low
               = Len(read)
          /\ \A f \in DOMAIN sarif_files :
                ~raises_in_gate_count(sarif_files[f]) =>
                  results_before_raise(results_of(sarif_files[f].runs, 1))
                    = results_of(sarif_files[f].runs, 1)
  /\ pc = "processed" =>
       LET summary == processor_report.summary
           detailed == processor_report.detailed_results
       IN /\ \A s \in Range(Severities) :
                summary.by_severity[s]
                  = Cardinality({k \in DOMAIN detailed :
                                   bucket_as_stated(detailed[k].level) = s})
          /\ summary.by_severity.critical + summary.by_severity.high
               + summary.by_severity.medium + summary.by_severity.low
               = summary.total_findings
          /\ summary.total_findings = Len(detailed)

\* Two results read without an error, one with no level and one of a level
\* that is none of the three: one in medium, one in low
C30_Witness ==
  /\ pc = "exited"
  /\ \A f \in DOMAIN sarif_files : ~raises_in_gate_count(sarif_files[f])
  /\ Len(gate_results_read(sarif_files, Len(sarif_files))) = 2
  /\ findings = [critical |-> 0, high |-> 0, medium |-> 1, low |-> 1]
  /\ \E i \in DOMAIN gate_results_read(sarif_files, Len(sarif_files)) :
        gate_results_read(sarif_files, Len(sarif_files))[i].level = Absent
====
